---- MODULE Spec2Model ----
(***************************************************************************)
(* Model of the validator's MinerEvaluator (vali_utils/miner_evaluator.py) *)
(* of data-universe: the per-miner evaluation eval_miner, the scheduling   *)
(* pass run_next_eval_batch and the registry-change handler                *)
(* _on_metagraph_updated, together with the collaborators they call.       *)
(***************************************************************************)
EXTENDS Integers, Sequences, FiniteSets, Bags, TLC

\* Python's None where a record is expected (an index, a storage row).
None == [none |-> TRUE]

\* ------------------------------------------------------------------------
\* Bounds of the model.
\* ------------------------------------------------------------------------
MaxTime == 2        \* the clock runs over 0..MaxTime
MaxNeurons == 2     \* uids of a registry passed to is_miner, is_validator, get_miner_uids
MaxClock == 13      \* seconds the clock of ttl_get_block runs over
MaxCalls == 3       \* calls of ttl_get_block
MaxRetries == 3     \* invocations of func that async_run_with_retry is tried on
MaxHours == 2       \* hours before and after the epoch of a timestamp passed to utils
MaxList == 3        \* entities of a list passed to a vali_utils function
MaxArray == 2       \* positions of an array of a compressed bucket
MaxUnits == 2       \* evaluation threads alive at once

\* ------------------------------------------------------------------------
\* Program constants.
\* ------------------------------------------------------------------------
MIN_EVALUATION_PERIOD == 2      \* constants.MIN_EVALUATION_PERIOD, in clock ticks
miners_to_eval == 10            \* batch size of run_next_eval_batch
MyUid == 0                      \* self.uid, the validator's own uid
StakeLimit == 10000             \* is_validator: metagraph.S[uid] >= 10_000

BadColdkeys == {"bad"}          \* stands for the four blacklisted coldkeys of is_miner

\* ------------------------------------------------------------------------
\* Registry snapshots (bt.metagraph): the fields the evaluator reads.
\* ------------------------------------------------------------------------
MG0 ==
  [n |-> 3,
   hotkeys |-> [u \in 0..2 |-> <<"v", "h1", "h2">>[u + 1]],
   axons |-> [u \in 0..2 |-> <<"a0", "a1", "a2">>[u + 1]],
   coldkeys |-> [u \in 0..2 |-> "ck"],
   Tv |-> [u \in 0..2 |-> IF u = 0 THEN 1 ELSE 0],
   validator_permit |-> [u \in 0..2 |-> u = 0],
   S |-> [u \in 0..2 |-> IF u = 0 THEN StakeLimit ELSE 0]]

\* uid 2 is re-registered by another hotkey, served from another axon, and
\* uid 1 gains validator trust but holds no permit: neither miner nor validator.
MG1 ==
  [MG0 EXCEPT !.hotkeys = [u \in 0..2 |-> <<"v", "h1", "h3">>[u + 1]],
              !.axons = [u \in 0..2 |-> <<"a0", "a1", "a3">>[u + 1]],
              !.Tv = [u \in 0..2 |-> IF u = 2 THEN 0 ELSE 1]]

\* The snapshots the syncer may deliver, in any order and any number of times.
Metagraphs == {MG0, MG1}

\* MG0 served from the same axons, but uid 1 has lost its role as in MG1.
MG2 == [MG0 EXCEPT !.Tv = [u \in 0..2 |-> IF u = 2 THEN 0 ELSE 1]]

\* MG0 grown by one identity: uid 3 is a new miner.
MG3 ==
  [n |-> 4,
   hotkeys |-> [u \in 0..3 |-> <<"v", "h1", "h2", "h4">>[u + 1]],
   axons |-> [u \in 0..3 |-> <<"a0", "a1", "a2", "a4">>[u + 1]],
   coldkeys |-> [u \in 0..3 |-> "ck"],
   Tv |-> [u \in 0..3 |-> IF u = 0 THEN 1 ELSE 0],
   validator_permit |-> [u \in 0..3 |-> u = 0],
   S |-> [u \in 0..3 |-> IF u = 0 THEN StakeLimit ELSE 0]]

\* MG3 with uid 2 re-registered as in MG1.
MG4 ==
  [MG3 EXCEPT !.hotkeys = [u \in 0..3 |-> <<"v", "h1", "h3", "h4">>[u + 1]],
              !.axons = [u \in 0..3 |-> <<"a0", "a1", "a3", "a4">>[u + 1]]]

\* The snapshots of the specification of the handler alone.
Snapshots == {MG0, MG1, MG2, MG3, MG4}

Hotkeys == {"v", "h1", "h2", "h3", "h4"}

\* The miner whose evaluation times the observers record.
Watched == "h1"

Uids(metagraph) == 0..(metagraph.n - 1)

is_miner(uid, metagraph) ==
  IF metagraph.coldkeys[uid] \in BadColdkeys
    THEN FALSE
    ELSE metagraph.Tv[uid] = 0

is_validator(uid, metagraph) ==
  metagraph.validator_permit[uid] /\ metagraph.S[uid] >= StakeLimit

RECURSIVE SortedSeq(_)
SortedSeq(s) ==
  IF s = {} THEN <<>>
  ELSE LET m == CHOOSE x \in s : \A y \in s : x <= y
       IN <<m>> \o SortedSeq(s \ {m})

get_miner_uids(metagraph, my_uid) ==
  SortedSeq({uid \in Uids(metagraph) : is_miner(uid, metagraph) /\ uid # my_uid})

Range(s) == {s[i] : i \in 1..Len(s)}

\* ------------------------------------------------------------------------
\* MinerIterator: the round-robin cursor (index is a position 1..Len).
\* ------------------------------------------------------------------------
MinerIterator(miner_uids) == [miner_uids |-> miner_uids, index |-> 1]

peek(it) == it.miner_uids[it.index]

advance(it) ==
  [it EXCEPT !.index = IF it.index + 1 > Len(it.miner_uids) THEN 1 ELSE it.index + 1]

RECURSIVE pull(_, _)
\* k calls of next(): the uids returned, in order, and the iterator afterwards.
pull(it, k) ==
  IF k = 0 THEN [uids |-> <<>>, it |-> it]
  ELSE CHOOSE pulled \in
         {[uids |-> <<peek(it)>> \o rest.uids, it |-> rest.it] :
            rest \in {pull(advanced, k - 1) : advanced \in {advance(it)}}} : TRUE

\* Keeps the position at the uid that was next, or at the first larger one.
set_miner_uids(it, miner_uids) ==
  LET next_uid == peek(it)
      new_index == Cardinality({i \in 1..Len(miner_uids) : miner_uids[i] < next_uid}) + 1
  IN [miner_uids |-> miner_uids,
      index |-> IF new_index > Len(miner_uids) THEN 1 ELSE new_index]

\* ------------------------------------------------------------------------
\* common/utils.py: time buckets. A datetime is an aware one: its wall clock
\* in whole seconds and the offset of its zone from UTC; a timestamp is in
\* whole seconds since the epoch.
\* ------------------------------------------------------------------------
utc == 0

Datetime(wall, utcoffset) == [wall |-> wall, utcoffset |-> utcoffset]

\* datetime.fromtimestamp(seconds, tz), datetime.astimezone(tz), datetime.timestamp()
fromtimestamp(seconds, tz) == Datetime(seconds + tz, tz)
astimezone(datetime, tz) == Datetime(datetime.wall - datetime.utcoffset + tz, tz)
timestamp(datetime) == datetime.wall - datetime.utcoffset

\* A variant of seconds_to_hours that rounds towards zero.
seconds_to_hours_truncated(seconds) ==
  IF seconds >= 0 THEN seconds \div 3600 ELSE -((-seconds) \div 3600)

\* seconds // 3600
seconds_to_hours(seconds) == seconds \div 3600

datetime_from_hours_since_epoch(hours) == fromtimestamp(hours * 3600, utc)

time_bucket_id_from_datetime(datetime) ==
  seconds_to_hours(timestamp(astimezone(datetime, utc)))

\* ------------------------------------------------------------------------
\* Data model: buckets, entities, indexes, validation results.
\* ------------------------------------------------------------------------
REDDIT == "REDDIT"
X == "X"

DataEntityBucketId(time_bucket, source, label) ==
  [time_bucket |-> time_bucket, source |-> source, label |-> label]

DataEntityBucket(id, size_bytes) == [id |-> id, size_bytes |-> size_bytes]

DataEntity(uri, datetime, source, label, content, content_size_bytes) ==
  [uri |-> uri, datetime |-> datetime, source |-> source, label |-> label,
   content |-> content, content_size_bytes |-> content_size_bytes]

ValidationResult(is_valid, reason, content_size_bytes_validated) ==
  [is_valid |-> is_valid, reason |-> reason,
   content_size_bytes_validated |-> content_size_bytes_validated]

\* The bucket the miners advertise: time bucket 1, two bytes.
BucketOne == DataEntityBucket(DataEntityBucketId(1, REDDIT, "l"), 2)

\* What a miner may answer to GetMinerIndex with a well-formed index.
MinerIndexes == {<<BucketOne>>}

\* len(content) of the contents used below.
ContentLength(content) == IF content = "zz" THEN 2 ELSE 1

\* Entities of the first second of time bucket 1.
EntityA == DataEntity("u1", Datetime(3600, utc), REDDIT, "l", "x", 1)
EntityB == DataEntity("u2", Datetime(3600, utc), REDDIT, "l", "y", 1)
EntityC == DataEntity("u3", Datetime(3600, utc), REDDIT, "other", "zz", 2)

\* What a miner may answer to GetDataEntityBucket with a successful response.
BucketResponses ==
  {<<EntityA, EntityB>>,    \* matches BucketOne, no duplicate
   <<EntityA, EntityA>>,    \* matches BucketOne by size, duplicate
   <<EntityA>>,             \* size differs from the bucket's
   <<EntityC, EntityC>>}    \* size and label differ, duplicate

\* Outcomes of a call to the transport or to the verifier:
\*   "none"     no successful response (get_single_successful_response is None)
\*   "garbled"  a response get_miner_index_from_response rejects (ValueError)
\*   "raise"    the call raised
\*   "value"    a usable reply, in .value; for an index, .form is the type of
\*              what get_miner_index_from_response returned
Outcome(kind) == [kind |-> kind]
Reply(value) == [kind |-> "value", value |-> value]

BucketOutcomes ==
  {Outcome("none"), Outcome("raise")} \cup {Reply(r) : r \in BucketResponses}

\* ------------------------------------------------------------------------
\* Storage collaborator (ValidatorStorage): one row per hotkey.
\* ------------------------------------------------------------------------
\* scorable_bytes is what of size_bytes counts for rewards when the index is
\* read (discounted by age, duplication and credibility): here all or nothing.
ScorableBytes(bucket, counted) ==
  IF counted THEN bucket.size_bytes ELSE 0

read_miner_index(store, hotkey, counted) ==
  IF store[hotkey] = None THEN None
  ELSE [hotkey |-> hotkey,
        scorable_data_entity_buckets |->
          [i \in 1..Len(store[hotkey].data_entity_buckets) |->
             [data_entity_bucket |-> store[hotkey].data_entity_buckets[i],
              scorable_bytes |-> ScorableBytes(store[hotkey].data_entity_buckets[i], counted)]]]

\* Optional[datetime] as a set: {} is None, {t} is the time t.
read_miner_last_updated(store, hotkey) ==
  IF store[hotkey] = None THEN {} ELSE {store[hotkey].last_updated}

upsert_miner_index(store, hotkey, miner_index, t) ==
  [store EXCEPT ![hotkey] = [data_entity_buckets |-> miner_index, last_updated |-> t]]

delete_miner(store, hotkey) == [store EXCEPT ![hotkey] = None]

\* ------------------------------------------------------------------------
\* vali_utils: sampling and basic validation.
\* ------------------------------------------------------------------------
\* A variant of BucketChoices that draws uniformly, whatever the weights.
BucketChoicesUniform(index) ==
  {index.scorable_data_entity_buckets[i].data_entity_bucket :
     i \in 1..Len(index.scorable_data_entity_buckets)}

\* The buckets choose_data_entity_bucket_to_query can return: weight > 0.
\* Empty when every weight is zero, and then the call raises.
BucketChoices(index) ==
  {index.scorable_data_entity_buckets[i].data_entity_bucket :
     i \in {j \in 1..Len(index.scorable_data_entity_buckets) :
              index.scorable_data_entity_buckets[j].scorable_bytes > 0}}

RECURSIVE SumSizes(_)
SumSizes(entities) ==
  IF entities = <<>> THEN 0
  ELSE Head(entities).content_size_bytes + SumSizes(Tail(entities))

\* A variant of EntityReason that reports a source mismatch as a label mismatch.
EntityReasonLabelForSource(entity, bucket) ==
  IF entity.content_size_bytes # ContentLength(entity.content)
    THEN "Size not as expected"
  ELSE IF entity.label # bucket.id.label THEN "Entity label not as expected"
  ELSE IF entity.source # bucket.id.source THEN "Entity label not as expected"
  ELSE IF time_bucket_id_from_datetime(entity.datetime) # bucket.id.time_bucket
    THEN "Entity datetime not as expected"
  ELSE "ok"

EntityReason(entity, bucket) ==
  IF entity.content_size_bytes # ContentLength(entity.content)
    THEN "Size not as expected"
  ELSE IF entity.label # bucket.id.label THEN "Entity label not as expected"
  ELSE IF entity.source # bucket.id.source THEN "Entity source not as expected"
  ELSE IF time_bucket_id_from_datetime(entity.datetime) # bucket.id.time_bucket
    THEN "Entity datetime not as expected"
  ELSE "ok"

\* A variant of are_entities_valid that accepts more bytes than advertised.
are_entities_valid_at_least(entities, bucket) ==
  IF SumSizes(entities) < bucket.size_bytes
    THEN <<FALSE, "Size not as expected">>
  ELSE LET bad == {i \in 1..Len(entities) : EntityReason(entities[i], bucket) # "ok"}
       IN IF bad = {} THEN <<TRUE, "">>
          ELSE <<FALSE, EntityReason(entities[CHOOSE i \in bad : \A j \in bad : i <= j], bucket)>>

\* are_entities_valid: <<valid, reason>>.
are_entities_valid(entities, bucket) ==
  IF SumSizes(entities) # bucket.size_bytes
    THEN <<FALSE, "Size not as expected">>
  ELSE LET bad == {i \in 1..Len(entities) : EntityReason(entities[i], bucket) # "ok"}
       IN IF bad = {} THEN <<TRUE, "">>
          ELSE <<FALSE, EntityReason(entities[CHOOSE i \in bad : \A j \in bad : i <= j], bucket)>>

\* What are_entities_unique compares of an entity.
EntityKey(entity) ==
  <<entity.uri, entity.datetime, entity.source, entity.label, entity.content>>

\* A variant of are_entities_unique that compares neighbours only.
are_entities_unique_adjacent(entities) ==
  \A i \in 1..Len(entities) - 1 : EntityKey(entities[i]) # EntityKey(entities[i + 1])

are_entities_unique(entities) ==
  \A i, j \in 1..Len(entities) : i # j => EntityKey(entities[i]) # EntityKey(entities[j])

\* A variant of EntityChoices that samples with replacement.
EntityChoicesWithReplacement(entities) ==
  IF Len(entities) <= 1 THEN {entities}
  ELSE {<<entities[p[1]], entities[p[2]]>> :
          p \in (1..Len(entities)) \X (1..Len(entities))}

\* choose_entities_to_verify returns the entities of min(2, k) distinct
\* positions, in either order.
EntityChoices(entities) ==
  IF Len(entities) <= 1 THEN {entities}
  ELSE {<<entities[p[1]], entities[p[2]]>> :
          p \in {q \in (1..Len(entities)) \X (1..Len(entities)) : q[1] # q[2]}}

\* scraper.validate: one result per entity, all passing or all failing.
VerifierResults(entities) ==
  {[i \in 1..Len(entities) |->
      ValidationResult(v, IF v THEN "Good job, you honest miner!" ELSE "Content mismatch",
                       IF v THEN entities[i].content_size_bytes ELSE 0)] : v \in BOOLEAN}

FailedResult(reason) == <<ValidationResult(FALSE, reason, 0)>>

\* ------------------------------------------------------------------------
\* vali_utils.get_miner_index_from_response: the index of a GetMinerIndex
\* response, in either wire form, as a MinerIndex.
\* ------------------------------------------------------------------------
\* mb_to_bytes(128)
DATA_ENTITY_BUCKET_SIZE_LIMIT_BYTES == 128 * 1024 * 1024

\* 200_000 in constants.py; scaled down so that an index can be over it.
DATA_ENTITY_BUCKET_COUNT_LIMIT_PER_MINER_INDEX == 3

\* What a call returned, or the exception it raised.
Return(value) == [kind |-> "return", value |-> value]
Raise(error) == [kind |-> "raise", error |-> error]

MinerIndex(hotkey, data_entity_buckets) ==
  [hotkey |-> hotkey, data_entity_buckets |-> data_entity_buckets]

CompressedEntityBucket(label, time_bucket_ids, sizes_bytes) ==
  [label |-> label, time_bucket_ids |-> time_bucket_ids, sizes_bytes |-> sizes_bytes]

\* An item of CompressedMinerIndex.sources; the dict is the sequence of its
\* items in iteration order.
SourceItem(source, buckets) == [source |-> source, buckets |-> buckets]

\* GetMinerIndex responses: with data_entity_buckets, with compressed_index,
\* or with neither.
UncompressedResponse(data_entity_buckets) ==
  [kind |-> "uncompressed", data_entity_buckets |-> data_entity_buckets]
CompressedResponse(sources) == [kind |-> "compressed", sources |-> sources]
EmptyResponse == [kind |-> "neither"]

\* A variant of ExpandBucket that pairs every time bucket with the first size.
ExpandBucketFirstSize(source, bucket) ==
  [i \in 1..Len(bucket.time_bucket_ids) |->
     DataEntityBucket(DataEntityBucketId(bucket.time_bucket_ids[i], source, bucket.label),
                      bucket.sizes_bytes[1])]

\* The buckets of one compressed bucket: the two arrays, position by position.
ExpandBucket(source, bucket) ==
  [i \in 1..Len(bucket.time_bucket_ids) |->
     DataEntityBucket(DataEntityBucketId(bucket.time_bucket_ids[i], source, bucket.label),
                      bucket.sizes_bytes[i])]

RECURSIVE ExpandBuckets(_, _)
ExpandBuckets(source, buckets) ==
  IF buckets = <<>> THEN <<>>
  ELSE ExpandBucket(source, Head(buckets)) \o ExpandBuckets(source, Tail(buckets))

RECURSIVE ExpandSources(_)
ExpandSources(sources) ==
  IF sources = <<>> THEN <<>>
  ELSE ExpandBuckets(Head(sources).source, Head(sources).buckets) \o ExpandSources(Tail(sources))

\* Some compressed bucket has arrays of different lengths.
ArraysDiffer(sources) ==
  \E s \in 1..Len(sources) : \E b \in 1..Len(sources[s].buckets) :
    Len(sources[s].buckets[b].time_bucket_ids) # Len(sources[s].buckets[b].sizes_bytes)

\* A variant of OverLimits that also rejects a bucket of exactly the size limit.
OverLimitsAtLimit(buckets) ==
  \/ Len(buckets) > DATA_ENTITY_BUCKET_COUNT_LIMIT_PER_MINER_INDEX
  \/ \E i \in 1..Len(buckets) : buckets[i].size_bytes >= DATA_ENTITY_BUCKET_SIZE_LIMIT_BYTES

\* Too many buckets, or a bucket that is too large.
OverLimits(buckets) ==
  \/ Len(buckets) > DATA_ENTITY_BUCKET_COUNT_LIMIT_PER_MINER_INDEX
  \/ \E i \in 1..Len(buckets) : buckets[i].size_bytes > DATA_ENTITY_BUCKET_SIZE_LIMIT_BYTES

get_miner_index_from_response(response, hotkey) ==
  IF response.kind = "neither" THEN Raise("ValueError")
  ELSE IF response.kind = "compressed" /\ ArraysDiffer(response.sources)
    THEN Raise("ValueError")
  ELSE LET buckets == IF response.kind = "compressed"
                        THEN ExpandSources(response.sources)
                        ELSE response.data_entity_buckets
       IN IF OverLimits(buckets) THEN Raise("ValueError")
          ELSE Return(MinerIndex(hotkey, buckets))

\* ------------------------------------------------------------------------
\* common/utils.py: async_run_with_retry. func is the outcome of each of its
\* invocations in turn: "ok", "exception" (an Exception) or "base_exception"
\* (a BaseException that is no Exception), with the number of the invocation
\* as the value returned or the exception raised.
\* ------------------------------------------------------------------------
CallEvent(attempt) == [event |-> "call", attempt |-> attempt]
SleepEvent(seconds) == [event |-> "sleep", seconds |-> seconds]

\* What a call did: what it returned or raised, and the calls of func and of
\* time.sleep it made, in order.
Ran(outcome, trace) == [kind |-> outcome.kind, outcome |-> outcome, trace |-> trace]

\* A variant of IsLastAttempt that is one attempt early.
IsLastAttemptEarly(attempt, max_retries) == attempt = max_retries - 1

\* if attempt == max_retries
IsLastAttempt(attempt, max_retries) == attempt = max_retries

RECURSIVE RetryFrom(_, _, _, _, _)
\* The loop from the given attempt on.
RetryFrom(func, max_retries, delay_seconds, attempt, trace) ==
  IF attempt > max_retries
    THEN Ran(Raise("Unexpected state"), trace)
  ELSE IF func[attempt] = "ok"
    THEN Ran(Return(attempt), Append(trace, CallEvent(attempt)))
  ELSE IF func[attempt] = "base_exception" \/ IsLastAttempt(attempt, max_retries)
    THEN Ran(Raise(attempt), Append(trace, CallEvent(attempt)))
  ELSE RetryFrom(func, max_retries, delay_seconds, attempt + 1,
                 Append(trace, CallEvent(attempt)) \o <<SleepEvent(delay_seconds)>>)

async_run_with_retry(func, max_retries, delay_seconds) ==
  RetryFrom(func, max_retries, delay_seconds, 1, <<>>)

\* ------------------------------------------------------------------------
\* common/utils.py: ttl_cache, and ttl_get_block decorated with it. Time is in
\* whole seconds; the block ttl_get_block reads at a time is that time.
\* ------------------------------------------------------------------------
\* @ttl_cache(maxsize=1, ttl=12)
maxsize == 1
ttl == 12

\* The instances ttl_get_block is called with as self.
Selves == {"validator", "miner"}

\* The module as imported: hash_gen not yet started (start_time is set by the
\* first next()), the lru_cache of ttl_func empty, no call made.
Decorated == [clock |-> 0, start_time |-> {}, entries |-> <<>>, calls |-> <<>>]

\* next(hash_gen) at time t with the generator started at start_time.
ttl_hash(t, start_time) == (t - start_time) \div ttl

\* A variant of CacheKey that leaves the arguments out of the key.
CacheKeyOfHash(th, self) == <<th>>

\* The key under which lru_cache keeps ttl_func(ttl_hash, *args).
CacheKey(th, self) == <<th, self>>

\* lru_cache: the entry of key, if any (least recently used first).
Hits(entries, key) == {i \in 1..Len(entries) : entries[i].key = key}

\* The entries after a hit at position i: it becomes the most recent.
Touched(entries, i) ==
  [j \in 1..Len(entries) |->
     IF j < i THEN entries[j] ELSE IF j < Len(entries) THEN entries[j + 1] ELSE entries[i]]

\* The entries after a miss: the new one is kept, the least recent dropped
\* when there are more than maxsize.
Stored(entries, entry) ==
  LET all == Append(entries, entry)
  IN IF Len(all) > maxsize THEN Tail(all) ELSE all

\* wrapped(self) at the time of the clock: what becomes of the cache, and the
\* call as made (whether it invoked ttl_get_block, and the block returned).
wrapped(cache, self) ==
  LET start_time == IF cache.start_time = {} THEN cache.clock
                    ELSE CHOOSE t \in cache.start_time : TRUE
      th == ttl_hash(cache.clock, start_time)
      key == CacheKey(th, self)
      hits == Hits(cache.entries, key)
  IN IF hits # {}
       THEN LET i == CHOOSE h \in hits : TRUE
            IN [cache EXCEPT
                  !.start_time = {start_time},
                  !.entries = Touched(cache.entries, i),
                  !.calls = Append(@, [self |-> self, at |-> cache.clock, ttl_hash |-> th,
                                       invoked |-> FALSE, block |-> cache.entries[i].block])]
       ELSE [cache EXCEPT
               !.start_time = {start_time},
               !.entries = Stored(cache.entries, [key |-> key, block |-> cache.clock]),
               !.calls = Append(@, [self |-> self, at |-> cache.clock, ttl_hash |-> th,
                                    invoked |-> TRUE, block |-> cache.clock])]

\* ------------------------------------------------------------------------
\* State.
\* ------------------------------------------------------------------------
VARIABLES
  now,              \* the wall clock (datetime.utcnow())
  metagraph,        \* self.metagraph
  miner_iterator,   \* self.miner_iterator
  storage,          \* self.storage: hotkey -> row or None
  pass,             \* the scheduling pass in progress (run_next_eval_batch)
  units,            \* the live evaluation threads (eval_miner_sync): a bag of their states
  scorer,           \* self.scorer: the number of uids it holds scoring state for
  starts,           \* observer: when the last evaluation of Watched began ({} if none)
  stepped,          \* observer: what an evaluation thread did in the last step
  handled,          \* observer: what the last call of _on_metagraph_updated did
  lock,             \* self.lock: who holds it
  args,             \* a call of a function of utils or vali_utils: the function and its arguments
  result,           \* what that call returned or raised (None before it)
  block_cache       \* utils.ttl_get_block: its cache, its clock and the calls made of it

vars == <<now, metagraph, miner_iterator, storage, pass, units, scorer, starts, stepped, handled, lock,
          args, result, block_cache>>

\* The state of a thread at the start of eval_miner(uid).  The counters and
\* reports record what the evaluation has done so far, checked, until the
\* thread reads its own, the hotkey whose last evaluation made the pass start
\* the thread, and upserts, where
\* they are followed, the upserts it has called.
NewUnit(uid, checked) ==
  [pc |-> "begin", uid |-> uid, checked |-> checked, hotkey |-> "", axon_info |-> "",
   index |-> None, chosen |-> None, entities |-> <<>>, to_validate |-> <<>>,
   bucket_requests |-> 0, validations |-> 0, uniqueness_checks |-> 0,
   verifier_calls |-> 0, upserts |-> <<>>, reports |-> <<>>]

\* eval_miner has returned ("done") or an exception has left it ("raised").
Ended(u) == u.pc \in {"done", "raised"}

\* No evaluation thread took the last step.
NoStep == [step |-> "none"]

\* Thread k took the step named step, on the outcome of the call it awaited, and
\* is now as unit; previous is when Watched was evaluated before (step "begin").
Stepped(step, outcome, unit, previous) ==
  [step |-> step, outcome |-> outcome, unit |-> unit, previous |-> previous]

\* No pass in progress; ret and raised tell how the last one ended:
\* it returned the wait in ret, or it raised.
Returned(ret) == [pc |-> "idle", metagraph |-> None, now |-> 0, ret |-> ret, raised |-> FALSE]
Failed == [pc |-> "idle", metagraph |-> None, now |-> 0, ret |-> {}, raised |-> TRUE]
IdlePass == Returned({})

\* Scoring collaborator (MinerScorer): its capacity and the credibility it
\* holds for each uid, 0 at the start and after a reset, 1 after an evaluation
\* whose results are all valid and 0 after any other.
MinerScorer(num_neurons) ==
  [num_neurons |-> num_neurons, credibility |-> [uid \in 0..(num_neurons - 1) |-> 0]]

resize(sc, num_neurons) ==
  [num_neurons |-> num_neurons,
   credibility |-> [uid \in 0..(num_neurons - 1) |->
                      IF uid < sc.num_neurons THEN sc.credibility[uid] ELSE 0]]

\* scorer.reset(uid) for each of uids.
reset(sc, uids) ==
  [sc EXCEPT !.credibility = [uid \in DOMAIN @ |-> IF uid \in uids THEN 0 ELSE @[uid]]]

\* The scorer after on_miner_evaluated(uid, index, results).
Scored(sc, uid, results) ==
  [sc EXCEPT !.credibility[uid] =
     IF \A i \in 1..Len(results) : results[i].is_valid THEN 1 ELSE 0]

\* No call of the handler observed.
NotHandled == [called |-> FALSE]

\* What a call of the handler did: the snapshots it compared, the uids it
\* called scorer.reset for, the hotkeys it called storage.delete_miner for,
\* those of them for which the call raised, and the sizes it called
\* scorer.resize with.
Handled(old, new, resets, deletes, failed, resizes) ==
  [called |-> TRUE, old |-> old, new |-> new,
   resets |-> resets, deletes |-> deletes, failed |-> failed, resizes |-> resizes]

EmptyStorage == [h \in Hotkeys |-> None]

\* self.lock (threading.RLock): free, or held by the pass, by an evaluation
\* thread, or by the handler called with the snapshot new.
FreeLock == [holder |-> "none"]
HeldBy(holder) == [holder |-> holder]
HeldByHandler(new) == [holder |-> "handler", new |-> new]

\* The evaluator as __init__ leaves it, on the snapshot the syncer holds then
\* and the rows the storage holds then.
EvaluatorConstructed(snapshot, rows) ==
  /\ now = 0
  /\ metagraph = snapshot
  /\ miner_iterator = MinerIterator(get_miner_uids(snapshot, MyUid))
  /\ storage = rows
  /\ pass = IdlePass
  /\ units = EmptyBag
  /\ scorer = MinerScorer(snapshot.n)
  /\ starts = {}
  /\ stepped = NoStep
  /\ handled = NotHandled
  /\ lock = FreeLock
  /\ block_cache = Decorated

\* The evaluator as constructed, and no function call under examination.
Constructed(snapshot, rows) ==
  /\ EvaluatorConstructed(snapshot, rows)
  /\ args = None
  /\ result = None

Init == Constructed(MG0, EmptyStorage)

\* A tick of the clock is long against the synchronous part of a pass.
Tick ==
  /\ now < MaxTime
  /\ pass.pc = "idle"
  /\ now' = now + 1
  /\ stepped' = NoStep
  /\ UNCHANGED <<metagraph, miner_iterator, storage, pass, units, starts, scorer, handled, lock, args, result, block_cache>>

\* Time goes on past MaxTime: the epoch moves forward by one tick instead of
\* the clock, so every stored time lies one tick further back.  A time that has
\* reached 0 stays there: it is MaxTime >= MIN_EVALUATION_PERIOD back, and the
\* code only asks whether a stored time is at least that old.
TickShift ==
  /\ now = MaxTime
  /\ pass.pc = "idle"
  /\ storage' = [h \in Hotkeys |->
                   IF storage[h] = None \/ storage[h].last_updated = 0
                     THEN storage[h]
                     ELSE [storage[h] EXCEPT !.last_updated = @ - 1]]
  /\ stepped' = NoStep
  /\ UNCHANGED <<now, metagraph, miner_iterator, pass, units, starts, scorer, handled, lock, args, result, block_cache>>

\* ------------------------------------------------------------------------
\* eval_miner: one evaluation.
\* ------------------------------------------------------------------------
\* self.scorer.on_miner_evaluated(uid, index, results), then eval_miner returns.
on_miner_evaluated(u, uid, index, results) ==
  [u EXCEPT !.pc = "done",
            !.reports = Append(@, [uid |-> uid, index |-> index, results |-> results])]

\* An exception leaves eval_miner: the thread ends.
Raised(u) == [u EXCEPT !.pc = "raised"]

\* A live thread in state u goes on as next, or ends as next and is no longer
\* alive.  When observe is set the observers record the step; when follow is
\* set the credibility the scorer holds is followed through the report made
\* in it.
Step(u, step, outcome, next, previous, observe, follow) ==
  /\ units' = (units (-) SetToBag({u})) (+) (IF Ended(next) THEN EmptyBag ELSE SetToBag({next}))
  /\ scorer' = IF follow /\ Len(next.reports) > Len(u.reports)
                 THEN Scored(scorer, next.reports[Len(next.reports)].uid,
                             next.reports[Len(next.reports)].results)
                 ELSE scorer
  /\ stepped' = IF observe THEN Stepped(step, outcome, next, previous) ELSE NoStep

\* Under the lock the thread in state u reads its miner's axon and hotkey.
ReadAxonAndHotkey(u, observe) ==
  LET hotkey == metagraph.hotkeys[u.uid]
  IN /\ Step(u, "begin", "",
             [u EXCEPT !.pc = "index_fetch",
                       !.checked = "",
                       !.hotkey = hotkey,
                       !.axon_info = metagraph.axons[u.uid]],
             IF hotkey = Watched THEN starts ELSE {}, observe, FALSE)
     /\ starts' = IF observe /\ hotkey = Watched THEN {now} ELSE starts

\* A thread takes the lock, reads its miner's axon and hotkey and releases the
\* lock, with no step of another thread in between.
EvalBegin(observe) ==
  /\ \E u \in BagToSet(units) :
       /\ u.pc = "begin"
       /\ ReadAxonAndHotkey(u, observe)
  /\ UNCHANGED <<now, metagraph, miner_iterator, storage, pass, scorer, handled, lock, args, result, block_cache>>

\* A valid index as get_miner_index_from_response hands it to the evaluator:
\* a MinerIndex (its buckets) or a CompressedMinerIndex (its sources).
IndexReply(form, value) == [kind |-> "value", form |-> form, value |-> value]

CompressedMinerIndexes ==
  {<<SourceItem(REDDIT, <<CompressedEntityBucket("l", <<1>>, <<2>>)>>)>>}

IndexOutcomes ==
  {Outcome("none"), Outcome("garbled"), Outcome("raise")}
    \cup {IndexReply("MinerIndex", i) : i \in MinerIndexes}
    \cup {IndexReply("CompressedMinerIndex", c) : c \in CompressedMinerIndexes}

\* storage.upsert_compressed_miner_index: the row holds the expanded buckets.
upsert_compressed_miner_index(store, hotkey, sources, t) ==
  upsert_miner_index(store, hotkey, ExpandSources(sources), t)

\* A call of one of the two upserts, with the index and the credibility it
\* was given.
Upsert(method, miner_index, hotkey, credibility) ==
  [method |-> method, index |-> miner_index, hotkey |-> hotkey, credibility |-> credibility]

\* A variant of get_miner_credibility that takes the credibility of the start.
get_miner_credibility_initial(sc, uid) == 0

\* scorer.get_miner_credibility(uid)
get_miner_credibility(sc, uid) == sc.credibility[uid]

\* isinstance(miner_index, MinerIndex), else CompressedMinerIndex.
UpsertMethod(form) ==
  IF form = "MinerIndex" THEN "upsert_miner_index" ELSE "upsert_compressed_miner_index"

\* The storage after the upsert named method of the index value.
Upserted(store, method, hotkey, value, t) ==
  IF method = "upsert_miner_index"
    THEN upsert_miner_index(store, hotkey, value, t)
    ELSE upsert_compressed_miner_index(store, hotkey, value, t)

\* A variant of _update_and_get_miner_index without the fallback: a miner that
\* does not answer has no index.
update_and_get_miner_index_no_fallback(store, sc, hotkey, uid, outcome, t, counted) ==
  IF outcome.kind \in {"none", "garbled"}
    THEN [storage |-> store, index |-> None, upserts |-> <<>>]
    ELSE LET miner_credibility == get_miner_credibility(sc, uid)
             method == UpsertMethod(outcome.form)
             stored == Upserted(store, method, hotkey, outcome.value, t)
         IN [storage |-> stored, index |-> read_miner_index(stored, hotkey, counted),
             upserts |-> <<Upsert(method, outcome.value, hotkey, miner_credibility)>>]

\* A variant of _update_and_get_miner_index that returns the index it read
\* before the upsert.
update_and_get_miner_index_read_first(store, sc, hotkey, uid, outcome, t, counted) ==
  IF outcome.kind \in {"none", "garbled"}
    THEN [storage |-> store, index |-> read_miner_index(store, hotkey, counted), upserts |-> <<>>]
    ELSE LET miner_credibility == get_miner_credibility(sc, uid)
             method == UpsertMethod(outcome.form)
             stored == Upserted(store, method, hotkey, outcome.value, t)
         IN [storage |-> stored, index |-> read_miner_index(store, hotkey, counted),
             upserts |-> <<Upsert(method, outcome.value, hotkey, miner_credibility)>>]

\* _update_and_get_miner_index once the transport has answered with outcome:
\* the storage afterwards, the index returned and the upserts called.
update_and_get_miner_index(store, sc, hotkey, uid, outcome, t, counted) ==
  IF outcome.kind \in {"none", "garbled"}
    THEN [storage |-> store, index |-> read_miner_index(store, hotkey, counted), upserts |-> <<>>]
    ELSE LET miner_credibility == get_miner_credibility(sc, uid)
             method == UpsertMethod(outcome.form)
             stored == Upserted(store, method, hotkey, outcome.value, t)
         IN [storage |-> stored, index |-> read_miner_index(stored, hotkey, counted),
             upserts |-> <<Upsert(method, outcome.value, hotkey, miner_credibility)>>]

\* A variant of AfterIndex that returns on a missing index without telling the scorer.
AfterIndexSilent(u, index) ==
  IF index = None
    THEN {[u EXCEPT !.pc = "done"]}
  ELSE IF BucketChoices(index) = {}
    THEN {Raised(u)}
  ELSE {[u EXCEPT !.pc = "bucket_fetch", !.chosen = b, !.bucket_requests = @ + 1] :
          b \in BucketChoices(index)}

\* eval_miner from the return of _update_and_get_miner_index to the bucket request.
AfterIndex(u, index) ==
  IF index = None
    THEN {on_miner_evaluated(u, u.uid, None, FailedResult("No available miner index."))}
  ELSE IF BucketChoices(index) = {}
    THEN {Raised(u)}
  ELSE {[u EXCEPT !.pc = "bucket_fetch", !.chosen = b, !.bucket_requests = @ + 1] :
          b \in BucketChoices(index)}

\* The index request returns; the index is refreshed and a bucket is chosen.
\* When follow is set the thread's upserts are recorded.
EvalIndex(observe, follow) ==
  /\ \E u \in BagToSet(units) :
       /\ u.pc = "index_fetch"
       /\ \E outcome \in IndexOutcomes :
            IF outcome.kind = "raise"
              THEN /\ Step(u, "index", "raise", Raised(u), {}, observe, follow)
                   /\ UNCHANGED storage
              ELSE \E counted \in BOOLEAN :
                     LET r == update_and_get_miner_index(storage, scorer, u.hotkey, u.uid, outcome, now, counted)
                         u1 == [u EXCEPT !.index = r.index,
                                         !.upserts = IF follow THEN @ \o r.upserts ELSE @]
                     IN /\ storage' = r.storage
                        /\ \E next \in AfterIndex(u1, r.index) :
                             Step(u, "index", outcome.kind, next, {}, observe, follow)
  /\ UNCHANGED <<now, metagraph, miner_iterator, pass, starts, handled, lock, args, result, block_cache>>

\* A variant of AfterBucket that takes a failed response for an empty bucket.
AfterBucketFailedAsEmpty(u, outcome) ==
  IF outcome.kind = "raise" THEN {Raised(u)}
  ELSE LET data_entities == IF outcome.kind = "none" THEN <<>> ELSE outcome.value
           validity == are_entities_valid(data_entities, u.chosen)
           u1 == [u EXCEPT !.entities = data_entities, !.validations = @ + 1]
           u2 == [u1 EXCEPT !.uniqueness_checks = @ + 1]
       IN IF ~validity[1]
            THEN {on_miner_evaluated(u1, u.uid, u.index, FailedResult(validity[2]))}
          ELSE IF ~are_entities_unique(data_entities)
            THEN {on_miner_evaluated(u2, u.uid, u.index, FailedResult("Duplicate entities found."))}
          ELSE {[u2 EXCEPT !.pc = "verify", !.to_validate = c, !.verifier_calls = @ + 1] :
                  c \in EntityChoices(data_entities)}

\* A variant of AfterBucket that reports every failed validation with the
\* reason of a failed response.
AfterBucketGenericReason(u, outcome) ==
  IF outcome.kind = "raise" THEN {Raised(u)}
  ELSE IF outcome.kind = "none"
    THEN {on_miner_evaluated(u, u.uid, u.index, FailedResult("Response failed or is invalid."))}
  ELSE LET data_entities == outcome.value
           validity == are_entities_valid(data_entities, u.chosen)
           u1 == [u EXCEPT !.entities = data_entities, !.validations = @ + 1]
           u2 == [u1 EXCEPT !.uniqueness_checks = @ + 1]
       IN IF ~validity[1]
            THEN {on_miner_evaluated(u1, u.uid, u.index, FailedResult("Response failed or is invalid."))}
          ELSE IF ~are_entities_unique(data_entities)
            THEN {on_miner_evaluated(u2, u.uid, u.index, FailedResult("Duplicate entities found."))}
          ELSE {[u2 EXCEPT !.pc = "verify", !.to_validate = c, !.verifier_calls = @ + 1] :
                  c \in EntityChoices(data_entities)}

\* A variant of AfterBucket without the uniqueness check.
AfterBucketNoUniqueness(u, outcome) ==
  IF outcome.kind = "raise" THEN {Raised(u)}
  ELSE IF outcome.kind = "none"
    THEN {on_miner_evaluated(u, u.uid, u.index, FailedResult("Response failed or is invalid."))}
  ELSE LET data_entities == outcome.value
           validity == are_entities_valid(data_entities, u.chosen)
           u1 == [u EXCEPT !.entities = data_entities, !.validations = @ + 1]
       IN IF ~validity[1]
            THEN {on_miner_evaluated(u1, u.uid, u.index, FailedResult(validity[2]))}
          ELSE {[u1 EXCEPT !.pc = "verify", !.to_validate = c, !.verifier_calls = @ + 1] :
                  c \in EntityChoices(data_entities)}

\* eval_miner from the bucket response to the call of the verifier.
AfterBucket(u, outcome) ==
  IF outcome.kind = "raise" THEN {Raised(u)}
  ELSE IF outcome.kind = "none"
    THEN {on_miner_evaluated(u, u.uid, u.index, FailedResult("Response failed or is invalid."))}
  ELSE LET data_entities == outcome.value
           validity == are_entities_valid(data_entities, u.chosen)
           u1 == [u EXCEPT !.entities = data_entities, !.validations = @ + 1]
           u2 == [u1 EXCEPT !.uniqueness_checks = @ + 1]
       IN IF ~validity[1]
            THEN {on_miner_evaluated(u1, u.uid, u.index, FailedResult(validity[2]))}
          ELSE IF ~are_entities_unique(data_entities)
            THEN {on_miner_evaluated(u2, u.uid, u.index, FailedResult("Duplicate entities found."))}
          ELSE {[u2 EXCEPT !.pc = "verify", !.to_validate = c, !.verifier_calls = @ + 1] :
                  c \in EntityChoices(data_entities)}

\* eval_miner from the verifier's return to the end.
AfterVerify(u, outcome) ==
  IF outcome.kind = "raise" THEN Raised(u)
  ELSE on_miner_evaluated(u, u.uid, u.index, outcome.value)

VerifierOutcomes(entities) ==
  {Outcome("raise")} \cup {Reply(r) : r \in VerifierResults(entities)}

\* The bucket request returns and the evaluation runs to its end.  Between the
\* bucket response and the end the thread reads and writes only its own locals,
\* so the verifier's round trip is taken in the same step.
EvalBucket(observe, follow) ==
  /\ \E u \in BagToSet(units) :
       /\ u.pc = "bucket_fetch"
       /\ \E outcome \in BucketOutcomes :
            \E next \in AfterBucket(u, outcome) :
              IF Ended(next)
                THEN Step(u, "bucket", outcome.kind, next, {}, observe, follow)
                ELSE \E verdict \in VerifierOutcomes(next.to_validate) :
                       Step(u, "verify", verdict.kind, AfterVerify(next, verdict), {}, observe, follow)
  /\ UNCHANGED <<now, metagraph, miner_iterator, storage, pass, starts, handled, lock, args, result, block_cache>>

\* ------------------------------------------------------------------------
\* run_next_eval_batch: one scheduling pass.
\* ------------------------------------------------------------------------
\* last_evaluated is None or (now - last_evaluated) >= MIN_EVALUATION_PERIOD
due_update(last_evaluated, t) ==
  \/ last_evaluated = {}
  \/ \E e \in last_evaluated : t - e >= MIN_EVALUATION_PERIOD

\* The pass begins: a deep copy of the metagraph, taken under the lock.
\* The pass with its deep copy of the snapshot, before the due check.
PassWithCopy(snapshot) ==
  [pc |-> "peek", metagraph |-> snapshot, now |-> 0, ret |-> {}, raised |-> FALSE]

RunCopy ==
  /\ pass.pc = "idle"
  /\ pass' = PassWithCopy(metagraph)
  /\ stepped' = NoStep
  /\ UNCHANGED <<now, metagraph, miner_iterator, storage, units, starts, scorer, handled, lock, args, result, block_cache>>

\* A variant of AfterPeek that waits a whole period whenever the next miner is not due.
AfterPeekWholePeriod(p, it, store, t) ==
  LET next_uid == peek(it)
      hotkey == p.metagraph.hotkeys[next_uid]
      last_evaluated == read_miner_last_updated(store, hotkey)
  IN IF ~due_update(last_evaluated, t)
       THEN Returned({MIN_EVALUATION_PERIOD})
       ELSE [p EXCEPT !.pc = "pull", !.now = t]

\* The pass after the due check of the next miner: it returns the wait, or goes on.
AfterPeek(p, it, store, t) ==
  LET next_uid == peek(it)
      hotkey == p.metagraph.hotkeys[next_uid]
      last_evaluated == read_miner_last_updated(store, hotkey)
  IN IF ~due_update(last_evaluated, t)
       THEN Returned({e + MIN_EVALUATION_PERIOD - t : e \in last_evaluated})
       ELSE [p EXCEPT !.pc = "pull", !.now = t]

RunPeek ==
  /\ pass.pc = "peek"
  /\ pass' = AfterPeek(pass, miner_iterator, storage, now)
  /\ stepped' = NoStep
  /\ UNCHANGED <<now, metagraph, miner_iterator, storage, units, starts, scorer, handled, lock, args, result, block_cache>>

\* A variant of uids_to_eval that keeps the whole batch.
uids_to_eval_unfiltered(p, uids_to_check, store) ==
  uids_to_check

\* A variant of uids_to_eval that keeps one due uid of the batch, the lowest.
uids_to_eval_lowest(p, uids_to_check, store) ==
  LET due == {uid \in uids_to_check :
                due_update(read_miner_last_updated(store, p.metagraph.hotkeys[uid]), p.now)}
  IN {uid \in due : \A other \in due : uid <= other}

\* The uids of the batch that are due, by the pass's copy of the metagraph.
uids_to_eval(p, uids_to_check, store) ==
  {uid \in uids_to_check :
     due_update(read_miner_last_updated(store, p.metagraph.hotkeys[uid]), p.now)}

\* One more thread for each uid of to_eval.
StartThreads(us, to_eval, snapshot) ==
  us (+) SetToBag({NewUnit(uid, snapshot.hotkeys[uid]) : uid \in to_eval})

\* The batch is pulled from the iterator and filtered, and its threads are started.
\* The deadline is then computed as datetime.datetime.now() +
\* datetime.datetime.timedelta(seconds=300): the class datetime.datetime has no
\* attribute timedelta, so the pass raises AttributeError before any join.
RunBatch ==
  /\ pass.pc = "pull"
  /\ \E pulled \in {pull(miner_iterator, miners_to_eval)} :
     \E to_eval \in {uids_to_eval(pass, Range(pulled.uids), storage)} :
        /\ miner_iterator' = pulled.it
        /\ IF to_eval = {}
             THEN \* assert uids_to_eval
                  /\ pass' = Failed
                  /\ UNCHANGED units
             ELSE /\ BagCardinality(units) + Cardinality(to_eval) <= MaxUnits
                  /\ units' = StartThreads(units, to_eval, pass.metagraph)
                  /\ pass' = Failed
  /\ stepped' = NoStep
  /\ UNCHANGED <<now, metagraph, storage, starts, scorer, handled, lock, args, result, block_cache>>

\* ------------------------------------------------------------------------
\* _on_metagraph_updated: the registry-change handler, under the lock.
\* storage.delete_miner may raise for any of the hotkeys in failures it is
\* called for; a delete that raises leaves the row as it is.
\* ------------------------------------------------------------------------
\* A variant of Retired that looks at replaced hotkeys only.
RetiredReplacedOnly(old, new) ==
  {uid \in Uids(old) : old.hotkeys[uid] # new.hotkeys[uid]}

\* The uids of the old snapshot whose hotkey was replaced or lost its role.
Retired(old, new) ==
  {uid \in Uids(old) :
     \/ old.hotkeys[uid] # new.hotkeys[uid]
     \/ (~is_miner(uid, new) /\ ~is_validator(uid, new))}

RECURSIVE DeleteMiners(_, _)
DeleteMiners(store, hotkeys) ==
  IF hotkeys = {} THEN store
  ELSE LET h == CHOOSE x \in hotkeys : TRUE
       IN DeleteMiners(delete_miner(store, h), hotkeys \ {h})

\* A variant of Processed in which the exception of delete_miner leaves the
\* loop: the uids up to the first one whose delete raises.
ProcessedUntilRaise(old, retired, failing) ==
  {uid \in retired : \A v \in retired : v < uid => old.hotkeys[v] \notin failing}

\* The retired uids the loop over old_hotkeys gets through when delete_miner
\* raises for the hotkeys in failing: the exception is caught and logged inside
\* the loop, so all of them.
Processed(old, retired, failing) == retired

\* A variant of axons_unchanged that compares the whole snapshots.
metagraph_unchanged(old, new) == old = new

\* The test of the fast path: the axon lists are equal.
axons_unchanged(old, new) == old.axons = new.axons

\* A variant of Resizes that resizes on every changed snapshot.
ResizesAlways(old, new) == {Cardinality(DOMAIN new.hotkeys)}

\* The sizes scorer.resize is called with: the new count if it is larger.
Resizes(old, new) ==
  IF Cardinality(DOMAIN old.hotkeys) < Cardinality(DOMAIN new.hotkeys)
    THEN {Cardinality(DOMAIN new.hotkeys)}
    ELSE {}

on_metagraph_updated(new, failures, observe) ==
  IF axons_unchanged(metagraph, new)
    THEN /\ UNCHANGED <<metagraph, miner_iterator, storage, scorer>>
         /\ handled' = IF observe THEN Handled(metagraph, new, {}, {}, {}, {}) ELSE NotHandled
    ELSE \E failing \in SUBSET ({metagraph.hotkeys[uid] : uid \in Retired(metagraph, new)}
                                   \cap failures) :
         LET resets == Processed(metagraph, Retired(metagraph, new), failing)
             deletes == {metagraph.hotkeys[uid] : uid \in resets}
             failed == deletes \cap failing
             resizes == Resizes(metagraph, new)
         IN /\ storage' = DeleteMiners(storage, deletes \ failed)
            /\ miner_iterator' = set_miner_uids(miner_iterator, get_miner_uids(metagraph, MyUid))
            /\ scorer' = IF resizes = {} THEN reset(scorer, resets)
                         ELSE resize(reset(scorer, resets), CHOOSE num_neurons \in resizes : TRUE)
            /\ metagraph' = new
            /\ handled' = IF observe THEN Handled(metagraph, new, resets, deletes, failed, resizes)
                                     ELSE NotHandled

\* The syncer delivers a snapshot.  The registry replaces identities and adds
\* new ones; it never has fewer than before.
MetagraphUpdated(snapshots, failures, observe) ==
  /\ \E new \in snapshots :
       /\ new.n >= metagraph.n
       /\ on_metagraph_updated(new, failures, observe)
  /\ stepped' = NoStep
  /\ UNCHANGED <<now, pass, units, starts, lock, args, result, block_cache>>

\* ------------------------------------------------------------------------
\* The validator: the scheduler's passes, the evaluation threads they start,
\* registry changes and the clock.
Next ==
  \/ Tick
  \/ MetagraphUpdated(Metagraphs, {}, FALSE)
  \/ RunCopy
  \/ RunPeek
  \/ RunBatch
  \/ EvalBegin(FALSE)
  \/ EvalIndex(FALSE, FALSE)
  \/ EvalBucket(FALSE, FALSE)

Spec == Init /\ [][Next]_vars

\* The passes and evaluations of one instant racing with registry changes, with
\* the observer of the evaluation threads recording.  The clock stands still:
\* every uid is due at the first instant, and the races need no more.
RaceNext ==
  \/ MetagraphUpdated(Metagraphs, {}, FALSE)
  \/ RunCopy
  \/ RunPeek
  \/ RunBatch
  \/ EvalBegin(TRUE)
  \/ EvalIndex(TRUE, FALSE)
  \/ EvalBucket(TRUE, FALSE)

RaceSpec == Init /\ [][RaceNext]_vars

\* The validator under a registry that does not change, with the observers of
\* the evaluation threads recording.
ObservedNext ==
  \/ Tick
  \/ RunCopy
  \/ RunPeek
  \/ RunBatch
  \/ EvalBegin(TRUE)
  \/ EvalIndex(TRUE, FALSE)
  \/ EvalBucket(TRUE, FALSE)

ObservedSpec == Init /\ [][ObservedNext]_vars

\* The same, with the upserts of the threads and the credibility held by the
\* scorer followed as well.
ScoredNext ==
  \/ Tick
  \/ RunCopy
  \/ RunPeek
  \/ RunBatch
  \/ EvalBegin(TRUE)
  \/ EvalIndex(TRUE, TRUE)
  \/ EvalBucket(TRUE, TRUE)

ScoredSpec == Init /\ [][ScoredNext]_vars

\* The registry-change handler alone, with its observer recording: an
\* evaluator constructed on any snapshot, over a storage that is empty or holds
\* a row for every hotkey of that snapshot and whose delete_miner may raise for
\* any hotkey, is delivered snapshots.
StoredRow == [data_entity_buckets |-> <<BucketOne>>, last_updated |-> 0]

Rows(snapshot) ==
  {EmptyStorage,
   [h \in Hotkeys |-> IF h \in {snapshot.hotkeys[uid] : uid \in Uids(snapshot)} THEN StoredRow ELSE None]}

RegistryInit ==
  \E snapshot \in Snapshots : \E rows \in Rows(snapshot) : Constructed(snapshot, rows)

RegistryNext == MetagraphUpdated(Snapshots, Hotkeys, TRUE)

RegistrySpec == RegistryInit /\ [][RegistryNext]_vars

\* ------------------------------------------------------------------------
\* The lock, step by step: taking self.lock is a step of its own, and the
\* statements of the with block are the step that releases it.
\* ------------------------------------------------------------------------
\* run_next_eval_batch enters "with self.lock".
PassAcquire ==
  /\ pass.pc = "idle"
  /\ lock = FreeLock
  /\ lock' = HeldBy("pass")
  /\ pass' = [pass EXCEPT !.pc = "copy"]
  /\ stepped' = NoStep
  /\ UNCHANGED <<now, metagraph, miner_iterator, storage, units, starts, scorer, handled, args, result, block_cache>>

\* The deep copy, and the with block ends.
PassCopy ==
  /\ pass.pc = "copy"
  /\ pass' = PassWithCopy(metagraph)
  /\ lock' = FreeLock
  /\ stepped' = NoStep
  /\ UNCHANGED <<now, metagraph, miner_iterator, storage, units, starts, scorer, handled, args, result, block_cache>>

\* eval_miner enters "with self.lock".
EvalAcquire ==
  /\ lock = FreeLock
  /\ \E u \in BagToSet(units) :
       /\ u.pc = "begin"
       /\ units' = (units (-) SetToBag({u})) (+) SetToBag({[u EXCEPT !.pc = "locked"]})
  /\ lock' = HeldBy("eval")
  /\ stepped' = NoStep
  /\ UNCHANGED <<now, metagraph, miner_iterator, storage, pass, starts, scorer, handled, args, result, block_cache>>

\* A variant of LockAfterRead: the index request is made inside the with block.
LockKeptAfterRead(l) == l

\* eval_miner's with block ends after the two reads, before the index request.
LockAfterRead(l) == FreeLock

\* The two reads, and the with block ends.
EvalRead ==
  /\ \E u \in BagToSet(units) :
       /\ u.pc = "locked"
       /\ ReadAxonAndHotkey(u, FALSE)
  /\ lock' = LockAfterRead(lock)
  /\ UNCHANGED <<now, metagraph, miner_iterator, storage, pass, scorer, handled, args, result, block_cache>>

\* _on_metagraph_updated, called by the syncer's thread, enters "with self.lock".
HandlerAcquire ==
  /\ lock = FreeLock
  /\ \E new \in Metagraphs :
       /\ new.n >= metagraph.n
       /\ lock' = HeldByHandler(new)
  /\ stepped' = NoStep
  /\ UNCHANGED <<now, metagraph, miner_iterator, storage, pass, units, starts, scorer, handled, args, result, block_cache>>

\* The body of the handler, and the with block ends.
HandlerRun ==
  /\ lock.holder = "handler"
  /\ on_metagraph_updated(lock.new, {}, FALSE)
  /\ lock' = FreeLock
  /\ stepped' = NoStep
  /\ UNCHANGED <<now, pass, units, starts, args, result, block_cache>>

\* The validator within one tick of the clock, with the lock step by step.
LockNext ==
  \/ PassAcquire
  \/ PassCopy
  \/ RunPeek
  \/ RunBatch
  \/ EvalAcquire
  \/ EvalRead
  \/ EvalIndex(FALSE, FALSE)
  \/ EvalBucket(FALSE, FALSE)
  \/ HandlerAcquire
  \/ HandlerRun

LockSpec == Init /\ [][LockNext]_vars

\* ------------------------------------------------------------------------
\* The functions of utils and vali_utils, each called once on arguments drawn
\* from the sets below.
\* ------------------------------------------------------------------------
SeqsUpTo(S, n) == UNION {[1..k -> S] : k \in 0..n}

SizeChoices ==
  {100, DATA_ENTITY_BUCKET_SIZE_LIMIT_BYTES, DATA_ENTITY_BUCKET_SIZE_LIMIT_BYTES + 1}

\* Compressed buckets with arrays of up to MaxArray positions, of equal
\* lengths or not.
CompressedBuckets ==
  {CompressedEntityBucket("A", t, z) :
     t \in SeqsUpTo({5, 6}, MaxArray), z \in SeqsUpTo(SizeChoices, MaxArray)}

MoreCompressedBuckets ==
  {CompressedEntityBucket("B", <<6>>, <<300>>),
   CompressedEntityBucket("B", <<6, 7>>, <<300, 100>>),
   CompressedEntityBucket("B", <<6>>, <<DATA_ENTITY_BUCKET_SIZE_LIMIT_BYTES + 1>>),
   CompressedEntityBucket("B", <<6>>, <<>>)}

\* One source with one or two compressed buckets, or two sources in either order.
CompressedIndexes ==
  UNION {{<<SourceItem(REDDIT, <<b>>)>>,
          <<SourceItem(REDDIT, <<b, c>>)>>,
          <<SourceItem(REDDIT, <<b>>), SourceItem(X, <<c>>)>>,
          <<SourceItem(X, <<c>>), SourceItem(REDDIT, <<b>>)>>} :
           b \in CompressedBuckets, c \in MoreCompressedBuckets}

\* Uncompressed indexes of one bucket up to one more than the count limit.
UncompressedIndexes ==
  UNION {[1..k -> {DataEntityBucket(DataEntityBucketId(5, REDDIT, "A"), 100),
                   DataEntityBucket(DataEntityBucketId(6, X, "B"),
                                    DATA_ENTITY_BUCKET_SIZE_LIMIT_BYTES),
                   DataEntityBucket(DataEntityBucketId(6, X, "B"),
                                    DATA_ENTITY_BUCKET_SIZE_LIMIT_BYTES + 1)}] :
           k \in 1..(DATA_ENTITY_BUCKET_COUNT_LIMIT_PER_MINER_INDEX + 1)}

IndexResponses ==
  {EmptyResponse}
    \cup {CompressedResponse(sources) : sources \in CompressedIndexes}
    \cup {UncompressedResponse(buckets) : buckets \in UncompressedIndexes}

IndexCalls ==
  {[fn |-> "get_miner_index_from_response", response |-> response, hotkey |-> "hk"] :
     response \in IndexResponses}

\* The call under examination returns: nothing else changes.
Returns(value) ==
  /\ result = None
  /\ result' = value
  /\ UNCHANGED <<now, metagraph, miner_iterator, storage, pass, units, scorer, starts, stepped,
                 handled, lock, args, block_cache>>

GetMinerIndexFromResponse ==
  /\ args.fn = "get_miner_index_from_response"
  /\ Returns(get_miner_index_from_response(args.response, args.hotkey))

\* Candidate lists of one to MaxList entities, equal ones included.
CandidateLists ==
  UNION {[1..k -> {EntityA, EntityB, EntityC}] : k \in 1..MaxList}

EntityCalls ==
  {[fn |-> "choose_entities_to_verify", entities |-> entities] : entities \in CandidateLists}

ChooseEntitiesToVerify ==
  /\ args.fn = "choose_entities_to_verify"
  /\ \E chosen \in EntityChoices(args.entities) : Returns(Return(chosen))

\* Indexes of up to MaxList buckets (bucket i is of time bucket i) with
\* scorable bytes of 0, 100 or 200 each.
ScorableIndexes ==
  UNION {{[hotkey |-> "hk",
           scorable_data_entity_buckets |->
             [i \in 1..k |->
                [data_entity_bucket |->
                   DataEntityBucket(DataEntityBucketId(i, REDDIT, "l"), 300),
                 scorable_bytes |-> weights[i]]]] :
            weights \in [1..k -> {0, 100, 200}]} : k \in 0..MaxList}

BucketCalls ==
  {[fn |-> "choose_data_entity_bucket_to_query", index |-> index] : index \in ScorableIndexes}

ChooseDataEntityBucketToQuery ==
  /\ args.fn = "choose_data_entity_bucket_to_query"
  /\ IF BucketChoices(args.index) = {}
       THEN Returns(Raise("NoScorableDataError"))
       ELSE \E chosen \in BucketChoices(args.index) : Returns(Return(chosen))

\* Offsets from UTC of the datetimes passed in: UTC, an hour ahead, half an
\* hour behind.
Zones == {utc, 3600, -1800}

\* Every second from MaxHours hours before the epoch to MaxHours hours after
\* it, as a datetime of each zone.
Datetimes ==
  {fromtimestamp(seconds, tz) :
     seconds \in (-(MaxHours * 3600))..(MaxHours * 3600), tz \in Zones}

TimeCalls ==
  {[fn |-> "time_bucket_id_from_datetime", datetime |-> datetime] : datetime \in Datetimes}
    \cup {[fn |-> "datetime_from_hours_since_epoch", hours |-> hours] :
             hours \in (-MaxHours)..MaxHours}

TimeBucketIdFromDatetime ==
  /\ args.fn = "time_bucket_id_from_datetime"
  /\ Returns(Return(time_bucket_id_from_datetime(args.datetime)))

DatetimeFromHoursSinceEpoch ==
  /\ args.fn = "datetime_from_hours_since_epoch"
  /\ Returns(Return(datetime_from_hours_since_epoch(args.hours)))

\* label=None
NoLabel == "None"

\* EntityA and EntityB, and EntityA with one field changed: the second before
\* the window of time bucket 1, its last second, the second after it, its
\* first second on a clock an hour ahead, the other source, another label, no
\* label, a content_size_bytes that is not the content's length, a longer content.
ReturnedEntities ==
  {EntityA, EntityB,
   [EntityA EXCEPT !.datetime = Datetime(3599, utc)],
   [EntityA EXCEPT !.datetime = Datetime(7199, utc)],
   [EntityA EXCEPT !.datetime = Datetime(7200, utc)],
   [EntityA EXCEPT !.datetime = Datetime(7200, 3600)],
   [EntityA EXCEPT !.source = X],
   [EntityA EXCEPT !.label = "other"],
   [EntityA EXCEPT !.label = NoLabel],
   [EntityA EXCEPT !.content_size_bytes = 2],
   [EntityA EXCEPT !.content = "zz", !.content_size_bytes = 2]}

ValidityCalls ==
  {[fn |-> "are_entities_valid", entities |-> entities,
    bucket |-> DataEntityBucket(BucketOne.id, size_bytes)] :
     entities \in UNION {[1..k -> ReturnedEntities] : k \in 1..MaxList},
     size_bytes \in {2, 3}}

AreEntitiesValid ==
  /\ args.fn = "are_entities_valid"
  /\ Returns(Return(are_entities_valid(args.entities, args.bucket)))

\* EntityA, and EntityA with one field changed: each of the five that make an
\* entity what it is, and content_size_bytes.
ComparedEntities ==
  {EntityA,
   [EntityA EXCEPT !.uri = "u2"],
   [EntityA EXCEPT !.datetime = Datetime(3601, utc)],
   [EntityA EXCEPT !.source = X],
   [EntityA EXCEPT !.label = "other"],
   [EntityA EXCEPT !.content = "y"],
   [EntityA EXCEPT !.content_size_bytes = 2]}

UniquenessCalls ==
  {[fn |-> "are_entities_unique", entities |-> entities] :
     entities \in UNION {[1..k -> ComparedEntities] : k \in 0..MaxList}}

AreEntitiesUnique ==
  /\ args.fn = "are_entities_unique"
  /\ Returns(Return(are_entities_unique(args.entities)))

\* func failing or succeeding in every way over MaxRetries invocations, and
\* max_retries from none to all of them.
RetryCalls ==
  {[fn |-> "async_run_with_retry", func |-> func, max_retries |-> max_retries,
    delay_seconds |-> delay_seconds] :
     func \in [1..MaxRetries -> {"ok", "exception", "base_exception"}],
     max_retries \in 0..MaxRetries, delay_seconds \in {1, 2}}

AsyncRunWithRetry ==
  /\ args.fn = "async_run_with_retry"
  /\ Returns(async_run_with_retry(args.func, args.max_retries, args.delay_seconds))

\* Registries of n uids, for n up to MaxNeurons, each with a coldkey that is blacklisted
\* or not, validator trust or none, a validator permit or none, and a stake of
\* nothing, one under the limit, or the limit.
RegistriesOf(n) ==
  {[n |-> n,
    hotkeys |-> [u \in 0..(n - 1) |-> "h"],
    axons |-> [u \in 0..(n - 1) |-> "a"],
    coldkeys |-> coldkeys, Tv |-> Tv, validator_permit |-> validator_permit, S |-> S] :
     coldkeys \in [0..(n - 1) -> {"ck", "bad"}],
     Tv \in [0..(n - 1) -> {0, 1}],
     validator_permit \in [0..(n - 1) -> BOOLEAN],
     S \in [0..(n - 1) -> {0, StakeLimit - 1, StakeLimit}]}

RoleCalls(snapshot) ==
  {[fn |-> "is_miner, is_validator", uid |-> uid, metagraph |-> snapshot] :
     uid \in Uids(snapshot)}

MinerUidsCalls(snapshot) ==
  {[fn |-> "get_miner_uids", metagraph |-> snapshot, my_uid |-> 0]}

\* is_miner and is_validator of the same uid and registry.
IsMinerIsValidator ==
  /\ args.fn = "is_miner, is_validator"
  /\ Returns(Return([is_miner |-> is_miner(args.uid, args.metagraph),
                     is_validator |-> is_validator(args.uid, args.metagraph)]))

GetMinerUids ==
  /\ args.fn = "get_miner_uids"
  /\ Returns(Return(get_miner_uids(args.metagraph, args.my_uid)))

\* One call, of any of the functions, on any of its arguments.
UtilsInit ==
  /\ EvaluatorConstructed(MG0, EmptyStorage)
  /\ \/ args \in IndexCalls
     \/ args \in EntityCalls
     \/ args \in BucketCalls
     \/ args \in TimeCalls
     \/ args \in ValidityCalls
     \/ args \in UniquenessCalls
     \/ args \in RetryCalls
     \/ \E n \in 1..MaxNeurons : \E snapshot \in RegistriesOf(n) : args \in RoleCalls(snapshot)
     \/ \E n \in 1..MaxNeurons : \E snapshot \in RegistriesOf(n) : args \in MinerUidsCalls(snapshot)
  /\ result = None

UtilsNext ==
  \/ GetMinerIndexFromResponse
  \/ ChooseEntitiesToVerify
  \/ ChooseDataEntityBucketToQuery
  \/ TimeBucketIdFromDatetime
  \/ DatetimeFromHoursSinceEpoch
  \/ AreEntitiesValid
  \/ AreEntitiesUnique
  \/ AsyncRunWithRetry
  \/ IsMinerIsValidator
  \/ GetMinerUids

UtilsSpec == UtilsInit /\ [][UtilsNext]_vars

\* ------------------------------------------------------------------------
\* ttl_get_block called by the instances of the process as time passes.
\* ------------------------------------------------------------------------
TtlGetBlock(self) ==
  /\ Len(block_cache.calls) < MaxCalls
  /\ block_cache' = wrapped(block_cache, self)
  /\ UNCHANGED <<now, metagraph, miner_iterator, storage, pass, units, scorer, starts, stepped,
                 handled, lock, args, result>>

\* A second passes.
CacheTick ==
  /\ block_cache.clock < MaxClock
  /\ block_cache' = [block_cache EXCEPT !.clock = @ + 1]
  /\ UNCHANGED <<now, metagraph, miner_iterator, storage, pass, units, scorer, starts, stepped,
                 handled, lock, args, result>>

CacheNext ==
  \/ \E self \in Selves : TtlGetBlock(self)
  \/ CacheTick

CacheSpec == Init /\ [][CacheNext]_vars

\* The validator run for ever: time goes on, the driver keeps invoking passes
\* and every started thread runs on (each network call has a timeout).  The
\* registry changes when it will.
LiveNext ==
  \/ Tick
  \/ TickShift
  \/ MetagraphUpdated(Metagraphs, {}, FALSE)
  \/ RunCopy
  \/ RunPeek
  \/ RunBatch
  \/ EvalBegin(FALSE)
  \/ EvalIndex(FALSE, FALSE)
  \/ EvalBucket(FALSE, FALSE)

LiveSpec ==
  /\ Init
  /\ [][LiveNext]_vars
  /\ SF_vars(Tick)
  /\ SF_vars(TickShift)
  /\ WF_vars(RunCopy)
  /\ WF_vars(RunPeek)
  /\ WF_vars(RunBatch)
  /\ WF_vars(EvalBegin(FALSE))
  /\ WF_vars(EvalIndex(FALSE, FALSE))
  /\ WF_vars(EvalBucket(FALSE, FALSE))

\* ------------------------------------------------------------------------
\* Properties.
\* ------------------------------------------------------------------------
\* An evaluation thread took the last step.
Observed == stepped.step # "none"

\* The evaluation observed in the last step has ended there.
ObservedEnd == Observed /\ Ended(stepped.unit)

\* results is one result that is invalid and has zero validated bytes.
OneFailedResult(results) ==
  /\ Len(results) = 1
  /\ ~results[1].is_valid
  /\ results[1].content_size_bytes_validated = 0

\* The evaluation u has returned after exactly one call of the scorer, with
\* index and the one failed result of the given reason.
ReportedFailure(u, index, reason) ==
  /\ u.pc = "done"
  /\ u.reports = <<[uid |-> u.uid, index |-> index, results |-> FailedResult(reason)]>>

\* C1: every evaluation, whatever the outcomes of its steps, ends having called
\* on_miner_evaluated exactly once: never zero times, never more than once.
C1_ScorerCalledExactlyOnce ==
  ObservedEnd => Len(stepped.unit.reports) = 1

\* C2: no miner has two evaluations started less than MIN_EVALUATION_PERIOD
\* apart: when an evaluation of the watched miner starts, every earlier start of
\* it lies at least MIN_EVALUATION_PERIOD back.
C2_StartsAtLeastPeriodApart ==
  (stepped.step = "begin" /\ stepped.unit.hotkey = Watched)
    => \A e \in stepped.previous : now - e >= MIN_EVALUATION_PERIOD

\* C3: no failure of the transport or of the peer's reply (no response, garbled
\* response, an error raised by the transport or the verifier) escapes eval_miner
\* as an error, and an evaluation that ends on such a failure has reported one
\* zero-credit result to the scorer.
C3_FailuresAbsorbed ==
  (Observed /\ stepped.outcome \in {"none", "garbled", "raise"})
    => /\ stepped.unit.pc # "raised"
       /\ stepped.unit.pc = "done"
            => /\ Len(stepped.unit.reports) = 1
               /\ OneFailedResult(stepped.unit.reports[1].results)

\* C4: when the miner supplies no usable index (no response, or a response that
\* fails normalization) and none is persisted for its hotkey, the evaluation
\* stops at once: no bucket request, no verifier call, and one report to the
\* scorer of the index None with exactly one invalid, zero-byte result.
C4_NoIndexAtAll ==
  [][(/\ stepped'.step = "index"
      /\ stepped'.outcome \in {"none", "garbled"}
      /\ storage[stepped'.unit.hotkey] = None)
       => /\ stepped'.unit.pc = "done"
          /\ Len(stepped'.unit.reports) = 1
          /\ stepped'.unit.reports[1].uid = stepped'.unit.uid
          /\ stepped'.unit.reports[1].index = None
          /\ OneFailedResult(stepped'.unit.reports[1].results)
          /\ stepped'.unit.bucket_requests = 0
          /\ stepped'.unit.verifier_calls = 0]_vars

C4_Witness ==
  /\ stepped.step = "index"
  /\ stepped.outcome = "garbled"
  /\ storage[stepped.unit.hotkey] = None
  /\ stepped.unit.pc = "done"

\* C5: when the index request gets no successful response or the response fails
\* normalization, nothing is written to storage and the index returned is the
\* one persisted for the hotkey before; if there is one, the evaluation goes on
\* to bucket selection with it and is not reported as failed.
C5_FallbackToPersisted ==
  [][(/\ stepped'.step = "index"
      /\ stepped'.outcome \in {"none", "garbled"})
       => /\ storage' = storage
          /\ \E counted \in BOOLEAN :
               stepped'.unit.index = read_miner_index(storage, stepped'.unit.hotkey, counted)
          /\ storage[stepped'.unit.hotkey] # None
               => /\ stepped'.unit.index # None
                  /\ stepped'.unit.index.scorable_data_entity_buckets # <<>>
                  /\ stepped'.unit.pc # "done"
                  /\ stepped'.unit.reports = <<>>]_vars

C5_Witness ==
  /\ stepped.step = "index"
  /\ stepped.outcome = "none"
  /\ storage[stepped.unit.hotkey] # None
  /\ stepped.unit.pc = "bucket_fetch"
  /\ stepped.unit.chosen = BucketOne

\* C6: when the request for the chosen bucket gets no successful response, the
\* evaluation stops: one report of the current index with exactly one invalid,
\* zero-byte result of reason "Response failed or is invalid.", and neither
\* basic validation nor the uniqueness check nor the verifier has run.
C6_BucketFetchFailed ==
  (stepped.step = "bucket" /\ stepped.outcome = "none")
    => /\ ReportedFailure(stepped.unit, stepped.unit.index, "Response failed or is invalid.")
       /\ stepped.unit.index # None
       /\ stepped.unit.validations = 0
       /\ stepped.unit.uniqueness_checks = 0
       /\ stepped.unit.verifier_calls = 0

C6_Witness ==
  /\ stepped.step = "bucket"
  /\ stepped.outcome = "none"
  /\ stepped.unit.pc = "done"
  /\ stepped.unit.bucket_requests = 1

\* C7: when basic validation of the returned entities against the chosen bucket
\* fails, the evaluation stops with exactly one invalid, zero-byte result whose
\* reason is the reason the validation returned; the uniqueness check and the
\* verifier have not run.
C7_BasicValidationFailed ==
  (/\ stepped.step = "bucket"
   /\ stepped.outcome = "value"
   /\ ~are_entities_valid(stepped.unit.entities, stepped.unit.chosen)[1])
    => /\ ReportedFailure(stepped.unit, stepped.unit.index,
                          are_entities_valid(stepped.unit.entities, stepped.unit.chosen)[2])
       /\ stepped.unit.validations = 1
       /\ stepped.unit.uniqueness_checks = 0
       /\ stepped.unit.verifier_calls = 0

C7_Witness ==
  /\ stepped.step = "bucket"
  /\ stepped.outcome = "value"
  /\ stepped.unit.entities = <<EntityA>>
  /\ stepped.unit.pc = "done"
  /\ stepped.unit.reports[1].results[1].reason = "Size not as expected"

\* The steps of the evaluation u have run in order, each at most once and only
\* after the one before it: bucket request, basic validation, uniqueness check,
\* verifier; and the verifier only on a response that passed both checks.
StepsInOrder(u) ==
  /\ u.bucket_requests <= 1
  /\ u.validations <= u.bucket_requests
  /\ u.uniqueness_checks <= u.validations
  /\ u.verifier_calls <= u.uniqueness_checks
  /\ u.validations = 1 <=> u.entities # <<>>
  /\ u.uniqueness_checks = 1 => are_entities_valid(u.entities, u.chosen)[1]
  /\ u.verifier_calls = 1
       => /\ are_entities_valid(u.entities, u.chosen)[1]
          /\ are_entities_unique(u.entities)
          /\ u.to_validate \in EntityChoices(u.entities)

\* C8 as stated: the steps run in order, the verifier only after the fetch and
\* both checks passed, and every bucket response that contains duplicate
\* entities ends the evaluation with one invalid, zero-byte result of reason
\* "Duplicate entities found." and no verifier call.
C8_AnyDuplicateReported ==
  Observed
    => /\ StepsInOrder(stepped.unit)
       /\ (/\ stepped.step = "bucket"
           /\ stepped.outcome = "value"
           /\ ~are_entities_unique(stepped.unit.entities))
            => /\ ReportedFailure(stepped.unit, stepped.unit.index, "Duplicate entities found.")
               /\ stepped.unit.verifier_calls = 0

\* C8, amended: the steps run in order, the verifier only after the fetch and
\* both checks passed, and a bucket response that passes basic validation and
\* contains duplicate entities ends the evaluation with one invalid, zero-byte
\* result of reason "Duplicate entities found." and no verifier call.
C8_ValidDuplicateReported ==
  Observed
    => /\ StepsInOrder(stepped.unit)
       /\ (/\ stepped.step = "bucket"
           /\ stepped.outcome = "value"
           /\ are_entities_valid(stepped.unit.entities, stepped.unit.chosen)[1]
           /\ ~are_entities_unique(stepped.unit.entities))
            => /\ ReportedFailure(stepped.unit, stepped.unit.index, "Duplicate entities found.")
               /\ stepped.unit.uniqueness_checks = 1
               /\ stepped.unit.verifier_calls = 0

C8_Witness ==
  /\ stepped.step = "bucket"
  /\ stepped.outcome = "value"
  /\ stepped.unit.entities = <<EntityA, EntityA>>
  /\ stepped.unit.pc = "done"
  /\ stepped.unit.uniqueness_checks = 1

\* The miner at the cursor, by the pass's copy of the metagraph, was last
\* evaluated less than MIN_EVALUATION_PERIOD before now.
PeekedNotDue ==
  LET last_evaluated ==
        read_miner_last_updated(storage, pass.metagraph.hotkeys[peek(miner_iterator)])
  IN /\ last_evaluated # {}
     /\ \A e \in last_evaluated : now - e < MIN_EVALUATION_PERIOD

\* C9: when the peeked miner was last evaluated less than MIN_EVALUATION_PERIOD
\* before now, the pass starts no evaluation thread, leaves the cursor where it
\* is and returns last_evaluated + MIN_EVALUATION_PERIOD - now, which is
\* positive and at most MIN_EVALUATION_PERIOD.
C9_NotDueReturnsWait ==
  [][(pass.pc = "peek" /\ pass' # pass /\ PeekedNotDue)
       => /\ units' = units
          /\ miner_iterator' = miner_iterator
          /\ storage' = storage
          /\ pass'.pc = "idle"
          /\ ~pass'.raised
          /\ pass'.ret =
               {e + MIN_EVALUATION_PERIOD - now :
                  e \in read_miner_last_updated(
                          storage, pass.metagraph.hotkeys[peek(miner_iterator)])}
          /\ \A wait \in pass'.ret : 0 < wait /\ wait <= MIN_EVALUATION_PERIOD]_vars

\* A pass has returned a wait shorter than the period, with a thread alive.
C9_Witness ==
  /\ pass.pc = "idle"
  /\ pass.ret = {1}
  /\ now = 1
  /\ units # EmptyBag

\* C10: if the miner next in line is not due, no miner of the eligible set is
\* due: none has no recorded last evaluation and none was last evaluated
\* MIN_EVALUATION_PERIOD or more ago.
C10_NextNotDueNoneDue ==
  LET last_evaluated(uid) == read_miner_last_updated(storage, metagraph.hotkeys[uid])
  IN ~due_update(last_evaluated(peek(miner_iterator)), now)
       => \A uid \in Range(miner_iterator.miner_uids) :
            ~due_update(last_evaluated(uid), now)

\* The step is the batch step of a pass: the pass leaves the point after the
\* due check (RunBatch).
BatchStep == pass.pc = "pull" /\ pass' # pass

\* The threads the step has started.
StartedThreads == units' (-) units

\* C11: in every pass that has got past the due check, the set of miners to
\* evaluate is not empty (the assertion "Expected at least 1 miner to evaluate."
\* does not fail), whatever has interleaved with the pass.
C11_BatchNeverEmpty ==
  pass.pc = "pull"
    => \E uid \in Range(pull(miner_iterator, miners_to_eval).uids) :
         LET last_evaluated == read_miner_last_updated(storage, pass.metagraph.hotkeys[uid])
         IN \/ last_evaluated = {}
            \/ \E e \in last_evaluated : pass.now - e >= MIN_EVALUATION_PERIOD

\* The uids the cursor yields in 10 pulls, and whether the pass finds uid due.
TenPulls ==
  {miner_iterator.miner_uids[((miner_iterator.index - 1 + j) % Len(miner_iterator.miner_uids)) + 1] :
     j \in 0..9}

DueInPass(uid) ==
  LET last_evaluated == read_miner_last_updated(storage, pass.metagraph.hotkeys[uid])
  IN \/ last_evaluated = {}
     \/ \E e \in last_evaluated : pass.now - e >= MIN_EVALUATION_PERIOD

C13_BatchPassReturnsZero ==
  [][(BatchStep /\ StartedThreads # EmptyBag)
       => \/ pass'.pc # "idle"
          \/ (~pass'.raised /\ pass'.ret = {0})]_vars

\* C14: a pass that has started its threads fixes the deadline once, 300 s
\* after the start of waiting, and then joins each thread with the timeout
\* max(0, deadline - now).
C14_DeadlineFixedBeforeJoins ==
  [][(BatchStep /\ StartedThreads # EmptyBag)
       => /\ pass'.pc = "join"
          /\ pass'.end = {now + 300}]_vars

\* C15: a thread still running when its pass is over was left behind by a
\* pass that returned (it is not awaited further and not cancelled), and it
\* still delivers its outcome to the scorer later.
C15_AbandonedByReturnedPass ==
  [][(BatchStep /\ pass'.pc = "idle" /\ StartedThreads # EmptyBag)
       => /\ ~pass'.raised
          /\ units \sqsubseteq units']_vars

\* The step is a batch step that starts a thread for uid.
Selects(uid) == BatchStep /\ \E u \in BagToSet(StartedThreads) : u.uid = uid

HandledChange == handled.called /\ handled.old.axons # handled.new.axons

\* C17: a handled change resets the scoring state of exactly the uids of the
\* old snapshot whose hotkey differs in the new snapshot or which are neither
\* miner nor validator there, and requests the deletion of the index of exactly
\* their old hotkeys.
C17_RetiredResetAndDeleted ==
  HandledChange =>
    /\ handled.resets \subseteq Uids(handled.old)
    /\ \A uid \in Uids(handled.old) :
         LET retired ==
               \/ handled.old.hotkeys[uid] # handled.new.hotkeys[uid]
               \/ /\ ~is_miner(uid, handled.new)
                  /\ ~is_validator(uid, handled.new)
         IN /\ uid \in handled.resets <=> retired
            /\ handled.old.hotkeys[uid] \in handled.deletes <=> retired
    /\ handled.deletes \subseteq {handled.old.hotkeys[uid] : uid \in Uids(handled.old)}

\* MG1 after MG0: uid 2 was re-registered, uid 1 lost its role and uid 0 stays;
\* the rows of h1 and h2 are gone, the validator's own is kept.
C17_Witness ==
  /\ handled = Handled(MG0, MG1, {1, 2}, {"h1", "h2"}, {}, {})
  /\ storage["h1"] = None
  /\ storage["h2"] = None
  /\ storage["v"] # None

\* C18: after a handled change the cursor's set is the miners of the new
\* snapshot, the validator's own uid left out.
C18_EligibleSetIsNewMiners ==
  HandledChange =>
    /\ metagraph = handled.new
    /\ miner_iterator.miner_uids = get_miner_uids(handled.new, MyUid)

\* C19: a handled change resizes the scoring state, to the new count of
\* identities, exactly when the new snapshot has more identities than the old
\* one; the capacity is not reduced and covers the snapshot held afterwards.
C19_ResizedIffGrown ==
  [][(handled'.called /\ handled'.old.axons # handled'.new.axons) =>
       /\ handled'.old = metagraph
       /\ handled'.resizes # {} <=> handled'.new.n > handled'.old.n
       /\ handled'.resizes # {} =>
            /\ handled'.resizes = {handled'.new.n}
            /\ scorer'.num_neurons = handled'.new.n
       /\ handled'.resizes = {} => scorer' = scorer
       /\ scorer'.num_neurons >= scorer.num_neurons
       /\ scorer'.num_neurons >= metagraph'.n]_vars

\* The registry grew from three identities to four and the scorer with it.
C19_Witness ==
  /\ handled.called
  /\ handled.old.n = 3
  /\ handled.new.n = 4
  /\ handled.resizes = {4}
  /\ scorer = MinerScorer(4)
  /\ metagraph.n = 4

\* C20: handling a snapshot with the axons of the held one changes nothing:
\* no reset, no deletion, no resize, and the held snapshot, the cursor with its
\* set, the storage and the scoring capacity stay as they are.
C20_SameAxonsNoOp ==
  [][(handled'.called /\ handled'.old.axons = handled'.new.axons) =>
       /\ handled'.old = metagraph
       /\ handled'.resets = {}
       /\ handled'.deletes = {}
       /\ handled'.resizes = {}
       /\ UNCHANGED <<metagraph, miner_iterator, storage, scorer>>]_vars

\* MG2 after MG0: the axons are the same, but uid 1 has lost its role; the
\* held snapshot is still MG0 and the row of h1 is still there.
C20_Witness ==
  /\ handled = Handled(MG0, MG2, {}, {}, {}, {})
  /\ Retired(MG0, MG2) # {}
  /\ metagraph = MG0
  /\ miner_iterator.miner_uids = <<1, 2>>
  /\ storage["h1"] # None

\* The number of live threads at pc.
ThreadsAt(pc) == BagCardinality([u \in {v \in BagToSet(units) : v.pc = pc} |-> CopiesIn(u, units)])

\* C21: the snapshot is read and replaced only by the holder of the lock; the
\* lock is held only by the pass while it copies, by one thread while it reads
\* its axon and hotkey, or by the handler; a thread whose index request, bucket
\* request or content verification is in flight does not hold it; and the pass
\* works on its copy.
C21_SnapshotUnderLock ==
  /\ [](/\ lock.holder \in {"none", "pass", "eval", "handler"}
        /\ lock.holder = "pass" <=> pass.pc = "copy"
        /\ lock.holder = "eval" <=> ThreadsAt("locked") = 1
        /\ ThreadsAt("locked") <= 1)
  /\ [][/\ metagraph' # metagraph => lock.holder = "handler" /\ lock' = FreeLock
        /\ (pass'.pc = "peek" /\ pass.pc # "peek") =>
             /\ lock.holder = "pass"
             /\ pass'.metagraph = metagraph
        /\ ThreadsAt("index_fetch")' > ThreadsAt("index_fetch") =>
             /\ lock.holder = "eval"
             /\ lock' = FreeLock
        /\ (pass.pc \in {"peek", "pull"} /\ pass'.pc # "idle") =>
             pass'.metagraph = pass.metagraph]_vars

\* A thread's index request is in flight, the handler holds the lock with
\* another snapshot to install, and the pass waits with its copy of the old one.
C21_Witness ==
  /\ ThreadsAt("index_fetch") >= 1
  /\ lock.holder = "handler"
  /\ lock.new # metagraph
  /\ pass.pc = "pull"
  /\ pass.metagraph = metagraph

\* The call under examination was of fn and has returned or raised.
Called(fn) == args.fn = fn /\ result # None

RECURSIVE SumOfLengths(_, _)
\* The array positions of the compressed buckets at the places (s, b) of sources.
SumOfLengths(sources, places) ==
  IF places = {} THEN 0
  ELSE LET p == CHOOSE q \in places : TRUE
       IN Len(sources[p[1]].buckets[p[2]].time_bucket_ids)
            + SumOfLengths(sources, places \ {p})

\* The places of the compressed buckets of sources, and those before (s, b).
Places(sources) ==
  UNION {{<<s, b>> : b \in 1..Len(sources[s].buckets)} : s \in 1..Len(sources)}
PlacesBefore(sources, s, b) ==
  {p \in Places(sources) : p[1] < s \/ (p[1] = s /\ p[2] < b)}

\* C22: a normalized compressed index has one bucket per array position, in
\* the order of the sources, of their compressed buckets and of the positions:
\* the bucket of position i has the time bucket and the size of position i, and
\* the source and label of its compressed bucket.
C22_CompressedIndexExpanded ==
  (/\ Called("get_miner_index_from_response")
   /\ args.response.kind = "compressed"
   /\ result.kind = "return") =>
    LET sources == args.response.sources
        buckets == result.value.data_entity_buckets
    IN /\ result.value.hotkey = args.hotkey
       /\ Len(buckets) = SumOfLengths(sources, Places(sources))
       /\ \A p \in Places(sources) :
            LET compressed == sources[p[1]].buckets[p[2]]
                before == SumOfLengths(sources, PlacesBefore(sources, p[1], p[2]))
            IN \A i \in 1..Len(compressed.time_bucket_ids) :
                 buckets[before + i] =
                   DataEntityBucket(
                     DataEntityBucketId(compressed.time_bucket_ids[i], sources[p[1]].source,
                                        compressed.label),
                     compressed.sizes_bytes[i])

\* The index of the test: two positions for REDDIT, one for X, three buckets.
C22_Witness ==
  /\ Called("get_miner_index_from_response")
  /\ args.response =
       CompressedResponse(<<SourceItem(REDDIT, <<CompressedEntityBucket("A", <<5, 6>>, <<100, DATA_ENTITY_BUCKET_SIZE_LIMIT_BYTES>>)>>),
                            SourceItem(X, <<CompressedEntityBucket("B", <<6>>, <<300>>)>>)>>)
  /\ result.kind = "return"
  /\ Len(result.value.data_entity_buckets) = 3
  /\ result.value.data_entity_buckets[3] = DataEntityBucket(DataEntityBucketId(6, X, "B"), 300)

\* The sizes of all array positions of the compressed buckets of sources.
SizesOf(sources) ==
  UNION {{sources[p[1]].buckets[p[2]].sizes_bytes[i] :
            i \in 1..Len(sources[p[1]].buckets[p[2]].sizes_bytes)} : p \in Places(sources)}

\* C23: an index response with a bucket larger than
\* DATA_ENTITY_BUCKET_SIZE_LIMIT_BYTES, or with more buckets than
\* DATA_ENTITY_BUCKET_COUNT_LIMIT_PER_MINER_INDEX, raises and returns no index,
\* compressed or not; an index with exactly the limit's number of buckets and a
\* bucket of exactly the limit's size is returned.
C23_OverLimitRejected ==
  Called("get_miner_index_from_response") =>
    /\ args.response.kind = "uncompressed" =>
         LET buckets == args.response.data_entity_buckets
             sizes == {buckets[i].size_bytes : i \in 1..Len(buckets)}
         IN /\ (\/ Len(buckets) > DATA_ENTITY_BUCKET_COUNT_LIMIT_PER_MINER_INDEX
                \/ \E z \in sizes : z > DATA_ENTITY_BUCKET_SIZE_LIMIT_BYTES)
                 => result = Raise("ValueError")
            /\ (/\ Len(buckets) = DATA_ENTITY_BUCKET_COUNT_LIMIT_PER_MINER_INDEX
                /\ \A z \in sizes : z <= DATA_ENTITY_BUCKET_SIZE_LIMIT_BYTES
                /\ DATA_ENTITY_BUCKET_SIZE_LIMIT_BYTES \in sizes)
                 => result = Return(MinerIndex(args.hotkey, buckets))
    /\ args.response.kind = "compressed" =>
         LET sources == args.response.sources
             count == SumOfLengths(sources, Places(sources))
             sizes == SizesOf(sources)
         IN /\ (\/ count > DATA_ENTITY_BUCKET_COUNT_LIMIT_PER_MINER_INDEX
                \/ \E z \in sizes : z > DATA_ENTITY_BUCKET_SIZE_LIMIT_BYTES)
                 => result = Raise("ValueError")
            /\ (/\ count = DATA_ENTITY_BUCKET_COUNT_LIMIT_PER_MINER_INDEX
                /\ \A z \in sizes : z <= DATA_ENTITY_BUCKET_SIZE_LIMIT_BYTES
                /\ DATA_ENTITY_BUCKET_SIZE_LIMIT_BYTES \in sizes
                /\ \A p \in Places(sources) :
                     Len(sources[p[1]].buckets[p[2]].time_bucket_ids)
                       = Len(sources[p[1]].buckets[p[2]].sizes_bytes))
                 => /\ result.kind = "return"
                    /\ Len(result.value.data_entity_buckets) = count

\* A compressed index of two buckets, one of them a byte over the size limit,
\* was rejected.
C23_Witness ==
  /\ Called("get_miner_index_from_response")
  /\ args.response =
       CompressedResponse(<<SourceItem(REDDIT, <<CompressedEntityBucket("A", <<5>>, <<100>>)>>),
                            SourceItem(X, <<CompressedEntityBucket("B", <<6>>, <<DATA_ENTITY_BUCKET_SIZE_LIMIT_BYTES + 1>>)>>)>>)
  /\ result = Raise("ValueError")

\* A compressed index exactly at both limits was returned.
C23_AtLimitsReached ==
  /\ Called("get_miner_index_from_response")
  /\ args.response =
       CompressedResponse(<<SourceItem(REDDIT, <<CompressedEntityBucket("A", <<5, 6>>, <<100, DATA_ENTITY_BUCKET_SIZE_LIMIT_BYTES>>),
                                                 CompressedEntityBucket("B", <<6>>, <<300>>)>>)>>)
  /\ result.kind = "return"

\* How many positions of seq hold e.
CountIn(seq, e) == Cardinality({i \in 1..Len(seq) : seq[i] = e})

\* C24: choose_entities_to_verify of k >= 1 candidates returns min(2, k)
\* entities, none more often than it is among the candidates; of one candidate
\* it returns that one.
C24_TwoDistinctCandidates ==
  Called("choose_entities_to_verify") =>
    LET candidates == args.entities
        chosen == result.value
    IN /\ result.kind = "return"
       /\ Len(chosen) = (IF Len(candidates) < 2 THEN Len(candidates) ELSE 2)
       /\ \A i \in 1..Len(chosen) :
            CountIn(chosen, chosen[i]) <= CountIn(candidates, chosen[i])
       /\ Len(candidates) = 1 => chosen = candidates

\* Of three candidates the third and the first were chosen.
C24_Witness ==
  /\ Called("choose_entities_to_verify")
  /\ args.entities = <<EntityA, EntityB, EntityC>>
  /\ result = Return(<<EntityC, EntityA>>)

\* The positions of args.index whose bucket has scorable bytes.
PositiveWeights ==
  {i \in 1..Len(args.index.scorable_data_entity_buckets) :
     args.index.scorable_data_entity_buckets[i].scorable_bytes > 0}

\* C25: choose_data_entity_bucket_to_query returns a bucket of the index whose
\* scorable_bytes is positive, every such bucket is a possible result, and the
\* call raises NoScorableDataError when no bucket has scorable bytes.
C25_ZeroWeightNeverChosen ==
  args.fn = "choose_data_entity_bucket_to_query" =>
    /\ result = None =>
         \A i \in PositiveWeights :
           ENABLED (/\ ChooseDataEntityBucketToQuery
                    /\ result' = Return(args.index.scorable_data_entity_buckets[i].data_entity_bucket))
    /\ result # None =>
         IF PositiveWeights = {}
           THEN result = Raise("NoScorableDataError")
           ELSE /\ result.kind = "return"
                /\ \E i \in PositiveWeights :
                     result.value = args.index.scorable_data_entity_buckets[i].data_entity_bucket

\* Of weights 0, 200, 100 the third bucket was chosen.
C25_Witness ==
  /\ Called("choose_data_entity_bucket_to_query")
  /\ Len(args.index.scorable_data_entity_buckets) = 3
  /\ args.index.scorable_data_entity_buckets[1].scorable_bytes = 0
  /\ args.index.scorable_data_entity_buckets[2].scorable_bytes = 200
  /\ args.index.scorable_data_entity_buckets[3].scorable_bytes = 100
  /\ result = Return(DataEntityBucket(DataEntityBucketId(3, REDDIT, "l"), 300))

\* With no scorable bytes at all the call raised.
C25_AllZeroRaised ==
  /\ Called("choose_data_entity_bucket_to_query")
  /\ Len(args.index.scorable_data_entity_buckets) = 2
  /\ result = Raise("NoScorableDataError")

RECURSIVE SizeOfFirst(_, _)
\* content_size_bytes of the first n entities together.
SizeOfFirst(entities, n) ==
  IF n = 0 THEN 0 ELSE SizeOfFirst(entities, n - 1) + entities[n].content_size_bytes

\* The seconds since the epoch of an entity's datetime.
SecondsOf(entity) == entity.datetime.wall - entity.datetime.utcoffset

\* What can be wrong with an entity of a bucket.
WrongSize(entity) == entity.content_size_bytes # ContentLength(entity.content)
WrongLabel(entity, bucket) == entity.label # bucket.id.label
WrongSource(entity, bucket) == entity.source # bucket.id.source
BeforeWindow(entity, bucket) == SecondsOf(entity) < bucket.id.time_bucket * 3600
AfterWindow(entity, bucket) == SecondsOf(entity) >= (bucket.id.time_bucket + 1) * 3600

\* C27: are_entities_valid returns valid exactly when the content_size_bytes
\* add up to the bucket's size_bytes and every entity has the size of its
\* content, the bucket's source and label, and a datetime in the bucket's hour.
C27_ValidIffAllConform ==
  Called("are_entities_valid") =>
    LET entities == args.entities
        bucket == args.bucket
    IN /\ result.kind = "return"
       /\ result.value[1] <=>
            /\ SizeOfFirst(entities, Len(entities)) = bucket.size_bytes
            /\ \A i \in 1..Len(entities) :
                 /\ ~WrongSize(entities[i])
                 /\ ~WrongLabel(entities[i], bucket)
                 /\ ~WrongSource(entities[i], bucket)
                 /\ ~BeforeWindow(entities[i], bucket)
                 /\ ~AfterWindow(entities[i], bucket)

\* Two conforming entities and then one of the other source: rejected.
C27_Witness ==
  /\ Called("are_entities_valid")
  /\ args.entities = <<EntityA, EntityB, [EntityA EXCEPT !.source = X]>>
  /\ args.bucket.size_bytes = 3
  /\ result.value[1] = FALSE

\* Two conforming entities, one of the last second of the hour and one of its
\* first second on a clock an hour ahead: accepted.
C27_AcceptedReached ==
  /\ Called("are_entities_valid")
  /\ args.entities = <<[EntityA EXCEPT !.datetime = Datetime(7199, utc)],
                       [EntityA EXCEPT !.datetime = Datetime(7200, 3600)]>>
  /\ result.value = <<TRUE, "">>

\* C28: the reason of a rejection by are_entities_valid names a check that
\* fails on the response: size (the sum, or an entity's content), label (a
\* missing one too), source, or datetime (before the bucket's hour, or at or
\* after its end); a response that is wrong in one of these ways only is
\* rejected for it, and a datetime of the first second of the hour is accepted.
C28_ReasonNamesFailingCheck ==
  Called("are_entities_valid") =>
    LET entities == args.entities
        bucket == args.bucket
        valid == result.value[1]
        reason == result.value[2]
        Some(Wrong(_)) == \E i \in 1..Len(entities) : Wrong(entities[i])
        size == \/ SizeOfFirst(entities, Len(entities)) # bucket.size_bytes
                \/ Some(WrongSize)
        label == \E i \in 1..Len(entities) : WrongLabel(entities[i], bucket)
        source == \E i \in 1..Len(entities) : WrongSource(entities[i], bucket)
        datetime == \E i \in 1..Len(entities) :
                      BeforeWindow(entities[i], bucket) \/ AfterWindow(entities[i], bucket)
    IN /\ (size \/ label \/ source \/ datetime) => ~valid
       /\ ~valid =>
            \/ reason = "Size not as expected" /\ size
            \/ reason = "Entity label not as expected" /\ label
            \/ reason = "Entity source not as expected" /\ source
            \/ reason = "Entity datetime not as expected" /\ datetime
       /\ (/\ ~size /\ ~label /\ ~source
           /\ \A i \in 1..Len(entities) : SecondsOf(entities[i]) = bucket.id.time_bucket * 3600)
            => valid

\* An entity of the second the hour ends with, otherwise conforming: rejected
\* for its datetime.
C28_Witness ==
  /\ Called("are_entities_valid")
  /\ args.entities = <<EntityB, [EntityA EXCEPT !.datetime = Datetime(7200, utc)]>>
  /\ args.bucket.size_bytes = 2
  /\ result.value = <<FALSE, "Entity datetime not as expected">>

\* C29: are_entities_unique returns true exactly when no two entities of the
\* list have the same uri, datetime, source, label and content, wherever in the
\* list they are.
C29_UniqueIffNoTwoAgree ==
  Called("are_entities_unique") =>
    LET entities == args.entities
    IN /\ result.kind = "return"
       /\ result.value <=>
            ~\E i \in 1..Len(entities) : \E j \in (i + 1)..Len(entities) :
               /\ entities[i].uri = entities[j].uri
               /\ entities[i].datetime = entities[j].datetime
               /\ entities[i].source = entities[j].source
               /\ entities[i].label = entities[j].label
               /\ entities[i].content = entities[j].content

\* The first and the last of three entities are the same: not unique.
C29_Witness ==
  /\ Called("are_entities_unique")
  /\ args.entities = <<EntityA, [EntityA EXCEPT !.content = "y"], EntityA>>
  /\ result = Return(FALSE)

\* Entities that differ in content only: unique.
C29_DifferentContentReached ==
  /\ Called("are_entities_unique")
  /\ args.entities = <<EntityA, [EntityA EXCEPT !.content = "y"]>>
  /\ result = Return(TRUE)

\* C30: the time bucket id of a datetime of t seconds since the epoch is the
\* hour id with id * 3600 <= t < (id + 1) * 3600, and the datetime of h hours
\* since the epoch has the time bucket id h.
C30_BucketIsFloorOfHours ==
  /\ Called("time_bucket_id_from_datetime") =>
       LET t == args.datetime.wall - args.datetime.utcoffset
       IN /\ result.kind = "return"
          /\ result.value * 3600 <= t
          /\ t < (result.value + 1) * 3600
  /\ Called("datetime_from_hours_since_epoch") =>
       /\ result.kind = "return"
       /\ result.value.wall - result.value.utcoffset = args.hours * 3600
       /\ time_bucket_id_from_datetime(result.value) = args.hours

\* A datetime a second before the epoch, on a clock an hour ahead, is of time
\* bucket -1.
C30_Witness ==
  /\ Called("time_bucket_id_from_datetime")
  /\ args.datetime = Datetime(3599, 3600)
  /\ result = Return(-1)

\* The attempts of the call under examination that end it: the first that does
\* not raise an Exception.
FirstSuccess ==
  {k \in 1..args.max_retries :
     /\ args.func[k] = "ok"
     /\ \A j \in 1..(k - 1) : args.func[j] = "exception"}

\* C31: async_run_with_retry calls func at most max_retries times; it returns
\* the result of the first attempt that succeeds and calls func no more; when
\* all max_retries attempts fail it raises the exception of the last one; it
\* sleeps delay_seconds after every failed attempt but the last.
C31_RetryUntilSuccess ==
  Called("async_run_with_retry") =>
    LET trace == result.trace
        calls == {i \in 1..Len(trace) : trace[i].event = "call"}
        sleeps == {i \in 1..Len(trace) : trace[i].event = "sleep"}
    IN /\ Cardinality(calls) <= args.max_retries
       /\ \A i \in calls :
            \/ i = Len(trace)
            \/ /\ args.func[trace[i].attempt] # "ok"
               /\ trace[i + 1] = SleepEvent(args.delay_seconds)
       /\ \A i \in sleeps : i > 1 /\ i < Len(trace) /\ (i - 1) \in calls /\ (i + 1) \in calls
       /\ \A i \in calls : trace[i].attempt = (i + 1) \div 2
       /\ \A k \in FirstSuccess :
            /\ result.outcome = Return(k)
            /\ Cardinality(calls) = k
       /\ (/\ args.max_retries >= 1
           /\ \A k \in 1..args.max_retries : args.func[k] = "exception")
            => /\ result.outcome = Raise(args.max_retries)
               /\ Cardinality(calls) = args.max_retries

\* Two failures and a success in three attempts.
C31_Witness ==
  /\ Called("async_run_with_retry")
  /\ args.max_retries = 3
  /\ args.func = <<"exception", "exception", "ok">>
  /\ result.outcome = Return(3)
  /\ result.trace = <<CallEvent(1), SleepEvent(args.delay_seconds), CallEvent(2),
                      SleepEvent(args.delay_seconds), CallEvent(3)>>

\* Every attempt failed: the exception of the last was raised.
C31_AllFailedReached ==
  /\ Called("async_run_with_retry")
  /\ args.max_retries = 2
  /\ args.func[1] = "exception" /\ args.func[2] = "exception"
  /\ result.outcome = Raise(2)

\* The calls of ttl_get_block made so far that invoked the function in the ttl
\* window th.
InvokedIn(th) ==
  {i \in 1..Len(block_cache.calls) :
     block_cache.calls[i].invoked /\ block_cache.calls[i].ttl_hash = th}

\* C32: ttl_get_block is invoked at most once in a ttl window, whichever
\* instances call it: a call in the window of an earlier call returns the block
\* cached then, the first call of a window invokes the function, and no block
\* older than ttl seconds is returned.
C32_OncePerWindow ==
  LET calls == block_cache.calls
  IN /\ \A i \in 1..Len(calls) : Cardinality(InvokedIn(calls[i].ttl_hash)) <= 1
     /\ \A i \in 1..Len(calls) :
          /\ calls[i].invoked <=> ~\E j \in 1..(i - 1) : calls[j].ttl_hash = calls[i].ttl_hash
          /\ calls[i].at - calls[i].block < ttl

\* C32, for the calls of one instance.
C32_OncePerWindowAndInstance ==
  LET calls == block_cache.calls
  IN (\A i, j \in 1..Len(calls) : calls[i].self = calls[j].self) =>
       /\ \A i \in 1..Len(calls) : Cardinality(InvokedIn(calls[i].ttl_hash)) <= 1
       /\ \A i \in 1..Len(calls) :
            /\ calls[i].invoked <=> ~\E j \in 1..(i - 1) : calls[j].ttl_hash = calls[i].ttl_hash
            /\ calls[i].at - calls[i].block < ttl

\* C33: no uid of a registry is a miner by is_miner and a validator by
\* is_validator at once; a uid with a blacklisted coldkey is no miner and is
\* not among get_miner_uids.
C33_NoHybrids ==
  /\ Called("is_miner, is_validator") =>
       /\ ~(result.value.is_miner /\ result.value.is_validator)
       /\ (args.metagraph.coldkeys[args.uid] \in BadColdkeys => ~result.value.is_miner)
  /\ Called("get_miner_uids") =>
       \A i \in 1..Len(result.value) :
         args.metagraph.coldkeys[result.value[i]] \notin BadColdkeys

\* C33, of the blacklist alone.
C33_BlacklistedNeverMiner ==
  /\ Called("is_miner, is_validator") =>
       (args.metagraph.coldkeys[args.uid] \in BadColdkeys => ~result.value.is_miner)
  /\ Called("get_miner_uids") =>
       \A i \in 1..Len(result.value) :
         args.metagraph.coldkeys[result.value[i]] \notin BadColdkeys

\* C34: no two evaluation threads of the same uid are alive at once.
C34_OneEvaluationPerUid ==
  \A u \in BagToSet(units) :
    /\ CopiesIn(u, units) = 1
    /\ \A v \in BagToSet(units) : v.uid = u.uid => v = u

\* C35: when an evaluation of hotkey H at uid u calls on_miner_evaluated(u, ...),
\* uid u is registered to H.
C35_ScoredIdentityStillRegistered ==
  (stepped.step # "none" /\ stepped.unit.reports # <<>>) =>
    \A i \in 1..Len(stepped.unit.reports) :
      metagraph.hotkeys[stepped.unit.reports[i].uid] = stepped.unit.hotkey

\* C36: the hotkey an evaluation thread reads for its uid is the hotkey whose
\* last evaluation the pass checked when it found the uid due.
C36_EvaluatedHotkeyIsCheckedHotkey ==
  [][stepped'.step = "begin" =>
       \A u \in BagToSet(units) :
         (u.pc = "begin" /\ u.uid = stepped'.unit.uid /\ CopiesIn(u, units') < CopiesIn(u, units))
           => stepped'.unit.hotkey = u.checked]_vars

\* A handled change in which delete_miner raised for some retired hotkey.
DeleteFailed == HandledChange /\ handled.failed # {}

\* C38: when the deletion of a retired hotkey's index fails during a handled
\* change, the uid of that hotkey is still reset, every other retired uid is
\* still reset and its deletion requested, the cursor's set is still rebuilt
\* and the held snapshot is the new one.
C38_DeleteFailureSwallowed ==
  [][(handled'.called /\ handled'.old.axons # handled'.new.axons /\ handled'.failed # {}) =>
       /\ handled'.old = metagraph
       /\ handled'.failed \subseteq handled'.deletes
       /\ handled'.resets = Retired(metagraph, handled'.new)
       /\ handled'.deletes = {metagraph.hotkeys[uid] : uid \in Retired(metagraph, handled'.new)}
       /\ \A h \in handled'.deletes :
            storage'[h] = IF h \in handled'.failed THEN storage[h] ELSE None
       /\ miner_iterator' = set_miner_uids(miner_iterator, get_miner_uids(metagraph, MyUid))
       /\ metagraph' = handled'.new]_vars

\* MG1 after MG0 with the delete of h1 failing: uid 1 and uid 2 were both
\* reset, the row of h2 is gone and the row of h1 is still there.
C38_Witness ==
  /\ DeleteFailed
  /\ handled.old = MG0
  /\ handled.new = MG1
  /\ handled.failed = {"h1"}
  /\ handled.resets = {1, 2}
  /\ storage["h1"] # None
  /\ storage["h2"] = None
  /\ metagraph = MG1

\* The buckets of a valid index in either form.
Canonical(miner_index) ==
  IF miner_index \in MinerIndexes THEN miner_index ELSE ExpandSources(miner_index)

\* C37: the step that receives a valid index calls exactly one upsert, the
\* uncompressed one for a MinerIndex and the compressed one for a
\* CompressedMinerIndex, for the thread's hotkey and with the credibility the
\* scorer held for the uid before the step, while the thread has chosen no
\* bucket and made no report; the index the thread then holds, chooses its
\* bucket from and later reports is the one read from the storage after the
\* upsert, and no further upsert follows.
C37_ValidIndexPersistedOnce ==
  [][stepped'.step # "none" =>
       LET u == stepped'.unit
       IN /\ Len(u.upserts) <= 1
          /\ (stepped'.step = "index" /\ stepped'.outcome = "value") =>
               /\ Len(u.upserts) = 1
               /\ u.upserts[1].method =
                    (IF u.upserts[1].index \in MinerIndexes
                       THEN "upsert_miner_index" ELSE "upsert_compressed_miner_index")
               /\ u.upserts[1].hotkey = u.hotkey
               /\ u.upserts[1].credibility = scorer.credibility[u.uid]
               /\ \E v \in BagToSet(units) :
                    /\ v.pc = "index_fetch" /\ v.uid = u.uid /\ v.hotkey = u.hotkey
                    /\ v.upserts = <<>> /\ v.bucket_requests = 0 /\ v.reports = <<>>
               /\ u.reports = <<>>
               /\ storage'[u.hotkey] =
                    [data_entity_buckets |-> Canonical(u.upserts[1].index), last_updated |-> now]
               /\ \E counted \in BOOLEAN : u.index = read_miner_index(storage', u.hotkey, counted)
               /\ u.pc = "bucket_fetch" =>
                    (u.bucket_requests = 1 /\ u.chosen \in BucketChoices(u.index))
          /\ (u.upserts # <<>> /\ stepped'.step # "index") =>
               /\ \A i \in 1..Len(u.reports) : u.reports[i].index = u.index
               /\ \E counted \in BOOLEAN :
                    u.index = [hotkey |-> u.upserts[1].hotkey,
                               scorable_data_entity_buckets |->
                                 [i \in 1..Len(Canonical(u.upserts[1].index)) |->
                                    [data_entity_bucket |-> Canonical(u.upserts[1].index)[i],
                                     scorable_bytes |->
                                       ScorableBytes(Canonical(u.upserts[1].index)[i], counted)]]]]_vars

\* A second evaluation of uid 2, after one with valid results, has stored a
\* compressed index with the credibility 1 and has reported on the index it
\* read back.
C37_Witness ==
  /\ stepped.step = "verify"
  /\ stepped.unit.uid = 2
  /\ Len(stepped.unit.upserts) = 1
  /\ stepped.unit.upserts[1].method = "upsert_compressed_miner_index"
  /\ stepped.unit.upserts[1].credibility = 1
  /\ Len(stepped.unit.reports) = 1
  /\ stepped.unit.reports[1].index = stepped.unit.index
  /\ stepped.unit.index # None

\* An uncompressed index was stored through upsert_miner_index.
C37_UncompressedReached ==
  /\ stepped.step = "index"
  /\ stepped.outcome = "value"
  /\ stepped.unit.upserts[1].method = "upsert_miner_index"
  /\ stepped.unit.pc = "bucket_fetch"

====
